---- MODULE Spec2Model ----
(***************************************************************************)
(* Model of the Uniswap price oracle of rotkehlchen                        *)
(* (rotkehlchen/chain/ethereum/oracles/uniswap.py): UniswapOracle.get_price*)
(* and UniswapOracle.find_route, one step per external call (get_pool,     *)
(* get_pool_price).  The pool-existence relation of the chain is revealed  *)
(* probe by probe and remembered, so that a pair probed twice in one call  *)
(* answers the same both times.                                            *)
(***************************************************************************)
EXTENDS Integers, Sequences, FiniteSets, TLC

(* ------------------------------------------------------------------ *)
(* Bounds                                                             *)
(* ------------------------------------------------------------------ *)
\* pool prices are 2000^k for k in 0..MaxPriceExp
MaxPriceExp == 1
\* the longest list of addresses one get_pool call answers with
MaxPools == 2
\* a V3 pool's liquidity is 500 * k for k in 0..MaxLiquidity
MaxLiquidity == 2
\* token decimals are 0..MaxDecimals, or unknown
MaxDecimals == 1
\* the USD price the Inquirer knows for a token is 0..MaxUsdPrice, 0 = unknown
MaxUsdPrice == 1
\* sqrtPriceX96 of a V3 pool is k * 2^96 for k in 0..MaxSqrtPrice
MaxSqrtPrice == 1
\* the price of a PoolPrice that is swapped is k / 10^d for k in
\* 1..MaxCoefficient and d in 0..MaxDecimals
MaxCoefficient == 12

(* ------------------------------------------------------------------ *)
(* Assets and tokens                                                  *)
(* ------------------------------------------------------------------ *)
A_ETH == "ETH"
A_USD == "USD"
A_USDC == "USDC"
weth == "WETH"
routing_assets == <<"WETH", "DAI", "USDT">>
RoutingSet == {routing_assets[i] : i \in 1..Len(routing_assets)}
\* ERC20 tokens that are not routing assets
OtherTokens == {"X", "Y", A_USDC}
ERC20Tokens == RoutingSet \cup OtherTokens
\* EVM tokens of another kind (ERC721)
NonERC20Tokens == {"NFT", "NFT2"}
EvmTokens == ERC20Tokens \cup NonERC20Tokens
\* assets with oracles that are not EVM tokens
NonEvmAssets == {"BTC", A_USD}
Assets == {A_ETH} \cup EvmTokens \cup NonEvmAssets

None == "None"
ZERO_ADDRESS == {}

\* EvmToken.token_kind
TokenKind(t) == IF t \in ERC20Tokens THEN "ERC20" ELSE "ERC721"

\* resolve_to_evm_token succeeds (otherwise it raises WrongAssetType)
IsEvmToken(a) == a \in EvmTokens

\* the address of the pool of two tokens: the unordered pair
PoolAddr(a, b) == {a, b}
Pairs == {s \in SUBSET ERC20Tokens : Cardinality(s) = 2}

(* ------------------------------------------------------------------ *)
(* Prices.  A price is 0 or a power of 2000, 2000^exp with exp any     *)
(* integer; it is kept as its exponent.  Products and inverses of such *)
(* prices are exact in FVal arithmetic (every power of 2000 has a      *)
(* finite decimal expansion), and they are exact here.                 *)
(* ------------------------------------------------------------------ *)
\* 2000^e
PowerOfBase(e) == [zero |-> FALSE, exp |-> e]
ONE == PowerOfBase(0)
ZERO == [zero |-> TRUE, exp |-> 0]
\* p * q
Mul(p, q) == IF p.zero \/ q.zero THEN ZERO ELSE PowerOfBase(p.exp + q.exp)
\* 1 / p, for p # 0
Inverse(p) == PowerOfBase(0 - p.exp)

\* the prices get_pool_price answers with: 1, 2000, ...
Prices == {PowerOfBase(k) : k \in 0..MaxPriceExp}

\* PoolPrice.swap_tokens
SwapTokens(p) ==
    [price |-> Inverse(p.price), token_0 |-> p.token_1, token_1 |-> p.token_0]

(* ------------------------------------------------------------------ *)
(* State                                                              *)
(* ------------------------------------------------------------------ *)
VARIABLES
    pc,                 \* position of the running call
    caller,             \* "get_price" or "find_route": the entry point called
    args,               \* <<from_asset, to_asset>> as passed by the caller
    from_token,         \* get_price: from_token / find_route: from_asset
    to_token,           \* get_price: to_token / find_route: to_asset
    pools,              \* chain: pair -> "unknown" | "yes" | "no"
    output,             \* find_route: output
    link_asset,         \* find_route: link_asset
    second_link_asset,  \* find_route: second_link_asset
    found_first_link,   \* find_route: found_first_link
    found_second_link,  \* find_route: found_second_link
    idx,                \* find_route: position in routing_assets of the loop
    probes,             \* log of the get_pool calls made
    route,              \* the list find_route returned
    ret,                \* source line of the return find_route took, 0 = none
    fetched,            \* log of what get_pool_price returned, in call order
    prices_and_tokens,  \* get_price: prices_and_tokens
    result,             \* outcome of the call
    query,              \* <<from_asset, to_asset>> as passed to
                        \* query_current_price, when that is the entry point
    rcall,              \* pool resolver: the call made and what the chain,
                        \* the asset registry and the Inquirer answer to it
    rret,               \* pool resolver: what the call returned or raised
    events,             \* history_events: the rows of the table
    mappings,           \* history_events_mappings: the rows of the table
    del,                \* delete_history_events_by_identifier: the call of
                        \* each caller, its position and what it returned
    req,                \* Ftx._make_request: the call, its backoff and what
                        \* it returned or raised
    api                 \* Ftx._api_query: the call, its locals and what it
                        \* returned or raised

oracleVars == <<pc, caller, args, from_token, to_token, pools, output, link_asset,
                second_link_asset, found_first_link, found_second_link, idx,
                probes, route, ret, fetched, prices_and_tokens, result, query>>
resolverVars == <<rcall, rret>>
dbVars == <<events, mappings, del>>
ftxVars == <<req, api>>
\* what the oracle and the resolvers leave alone
otherVars == <<dbVars, ftxVars>>
\* what DBHistoryEvents leaves alone
nonDbVars == <<oracleVars, resolverVars, ftxVars>>
\* what Ftx leaves alone
nonFtxVars == <<oracleVars, resolverVars, dbVars>>
vars == <<oracleVars, resolverVars, dbVars, ftxVars>>

NoQuery == <<None, None>>
NoCall == [op |-> "none"]
NoReturn == [kind |-> "none"]

\* the threads that call delete_history_events_by_identifier
Callers == {"caller1", "caller2"}
NoMessage == [kind |-> "None", identifier |-> 0]
NoDelete == [pc |-> "idle", identifiers |-> <<>>, pos |-> 0, result |-> NoMessage,
             before |-> {}, existing |-> {}]
\* Ftx: no response yet, nothing returned yet, no call yet
NoResponse == [status_code |-> 0, text |-> ""]
NoAnswer == [kind |-> "None", detail |-> ""]
NoRequest == [pc |-> "idle", endpoint |-> "", options |-> {}, backoff |-> 0,
              sent |-> 0, slept |-> 0, response |-> NoResponse,
              result |-> NoAnswer]
NoApiQuery == [pc |-> "idle", endpoint |-> "", limit |-> 0, start_time |-> 0,
               new_start_time |-> 0, new_min_id |-> None, ids |-> {},
               final_data |-> <<>>, received |-> <<>>, pages |-> 0,
               error_added |-> FALSE, result |-> NoAnswer]

NoResult == [kind |-> "none", price |-> ZERO]
PriceResult(p) == [kind |-> "Price", price |-> p]
Raise(e) == [kind |-> e, price |-> ZERO]
RouteResult == [kind |-> "route", price |-> ZERO]

Init ==
    /\ pc = "idle"
    /\ caller = None
    /\ args = <<None, None>>
    /\ from_token = None
    /\ to_token = None
    /\ pools = [p \in Pairs |-> "unknown"]
    /\ output = <<>>
    /\ link_asset = None
    /\ second_link_asset = None
    /\ found_first_link = FALSE
    /\ found_second_link = FALSE
    /\ idx = 0
    /\ probes = <<>>
    /\ route = <<>>
    /\ ret = 0
    /\ fetched = <<>>
    /\ prices_and_tokens = <<>>
    /\ result = NoResult
    /\ query = NoQuery
    /\ rcall = NoCall
    /\ rret = NoReturn
    /\ events = {}
    /\ mappings = {}
    /\ del = [c \in Callers |-> NoDelete]
    /\ req = NoRequest
    /\ api = NoApiQuery

(* ------------------------------------------------------------------ *)
(* The chain as get_pool sees it                                      *)
(* ------------------------------------------------------------------ *)
RECURSIVE SeqsUpTo(_, _)
SeqsUpTo(S, n) ==
    IF n = 0 THEN {<<>>}
    ELSE LET shorter == SeqsUpTo(S, n - 1)
         IN shorter \cup {Append(q, x) : q \in shorter, x \in S}

\* the lists of addresses get_pool(token_0, token_1) may answer with
PoolLists(a, b) == SeqsUpTo({ZERO_ADDRESS, PoolAddr(a, b)}, MaxPools)

HasPool(lst) == \E i \in 1..Len(lst) : lst[i] # ZERO_ADDRESS

\* the answer agrees with what the chain has already shown for the pair;
\* the factory holds no pool of a token with itself
CanAnswer(a, b, lst) ==
    IF a = b THEN ~HasPool(lst)
    ELSE pools[PoolAddr(a, b)] \in {"unknown", IF HasPool(lst) THEN "yes" ELSE "no"}

Revealed(a, b, lst) ==
    IF a = b THEN pools
    ELSE [pools EXCEPT ![PoolAddr(a, b)] = IF HasPool(lst) THEN "yes" ELSE "no"]

(* ------------------------------------------------------------------ *)
(* UniswapOracle._find_pool_for                                       *)
(* ------------------------------------------------------------------ *)
RECURSIVE FirstPool(_, _)
\* position of the first address of lst, from position i on, that is not
\* ZERO_ADDRESS, 0 when there is none
FirstPool(lst, i) ==
    IF i > Len(lst) THEN 0
    ELSE IF lst[i] # ZERO_ADDRESS THEN i
    ELSE FirstPool(lst, i + 1)

\* the value _find_pool_for returns and the path it leaves behind
FindPoolFor(lst, path) ==
    LET k == FirstPool(lst, 1)
    IN IF k # 0 THEN [found |-> TRUE, path |-> Append(path, lst[k])]
       ELSE [found |-> FALSE, path |-> path]

Probe(site, a, b, found) == [site |-> site, a |-> a, b |-> b, found |-> found]

(* ------------------------------------------------------------------ *)
(* UniswapOracle.find_route                                           *)
(* ------------------------------------------------------------------ *)
RECURSIVE NextIdx(_, _)
\* "for asset in self.routing_assets: if asset != skip": the first position
\* from i on whose asset is not skip, Len(routing_assets) + 1 past the end
NextIdx(i, skip) ==
    IF i > Len(routing_assets) THEN i
    ELSE IF routing_assets[i] # skip THEN i
    ELSE NextIdx(i + 1, skip)

\* list.insert(1, x)
Insert1(lst, x) ==
    IF Len(lst) = 0 THEN <<x>>
    ELSE <<lst[1], x>> \o SubSeq(lst, 2, Len(lst))

\* Return with the empty route treated as a failure of the price query
Return_EmptyRaises(c, r, line) ==
    /\ route' = r
    /\ ret' = line
    /\ IF c = "find_route"
       THEN pc' = "done" /\ result' = RouteResult
       ELSE IF Len(r) = 0
            THEN pc' = "done" /\ result' = Raise("DefiPoolError")
            ELSE pc' = "get_pool_price" /\ result' = result

\* find_route returns r at source line `line`; get_price goes on from its
\* line 219
Return(c, r, line) ==
    /\ route' = r
    /\ ret' = line
    /\ IF c = "find_route"
       THEN pc' = "done" /\ result' = RouteResult
       ELSE IF Len(r) = 0
            THEN pc' = "done" /\ result' = PriceResult(ZERO)
            ELSE pc' = "get_pool_price" /\ result' = result

\* the first loop from position i on, and the code after it up to the next
\* get_pool call; ffl is the current value of found_first_link
Loop1From(c, f, t, i, ffl) ==
    LET j == NextIdx(i, f)
    IN IF j <= Len(routing_assets)
       THEN /\ pc' = "first_link"
            /\ idx' = j
            /\ UNCHANGED <<route, ret, result, second_link_asset>>
       ELSE IF ~ffl
       THEN /\ Return(c, <<>>, 150)
            /\ UNCHANGED <<idx, second_link_asset>>
       ELSE /\ second_link_asset' = None
            /\ pc' = "third_link"
            /\ idx' = NextIdx(1, t)
            /\ UNCHANGED <<route, ret, result>>

\* lines 125-131
AfterDirect(c, f, t) ==
    IF f = t
    THEN /\ Return(c, <<>>, 126)
         /\ UNCHANGED <<idx, second_link_asset, link_asset,
                        found_first_link, found_second_link>>
    ELSE /\ link_asset' = None
         /\ found_first_link' = FALSE
         /\ found_second_link' = FALSE
         /\ Loop1From(c, f, t, 1, FALSE)

\* EnterFindRoute with the direct hop tried for every pair of tokens
EnterFindRoute_AlwaysDirect(c, f, t) ==
    /\ output' = <<>>
    /\ pc' = "direct"
    /\ UNCHANGED <<idx, route, ret, result, second_link_asset,
                   link_asset, found_first_link, found_second_link>>

\* EnterFindRoute with line 115 looking at from_asset only
EnterFindRoute_FromOnly(c, f, t) ==
    /\ output' = <<>>
    /\ IF f \in RoutingSet
       THEN /\ pc' = "direct"
            /\ UNCHANGED <<idx, route, ret, result, second_link_asset,
                           link_asset, found_first_link, found_second_link>>
       ELSE AfterDirect(c, f, t)

\* lines 112-116
EnterFindRoute(c, f, t) ==
    /\ output' = <<>>
    /\ IF f \in RoutingSet \/ t \in RoutingSet
       THEN /\ pc' = "direct"
            /\ UNCHANGED <<idx, route, ret, result, second_link_asset,
                           link_asset, found_first_link, found_second_link>>
       ELSE AfterDirect(c, f, t)

\* a caller invokes find_route itself
FindRoute(f, t) ==
    /\ pc = "idle"
    /\ caller' = "find_route"
    /\ args' = <<f, t>>
    /\ from_token' = f
    /\ to_token' = t
    /\ EnterFindRoute("find_route", f, t)
    /\ UNCHANGED <<pools, probes, fetched, prices_and_tokens, query>>
    /\ UNCHANGED <<resolverVars, otherVars>>

\* lines 117-123: the direct hop
ProbeDirect ==
    /\ pc = "direct"
    /\ \E lst \in PoolLists(from_token, to_token) :
        /\ CanAnswer(from_token, to_token, lst)
        /\ pools' = Revealed(from_token, to_token, lst)
        /\ LET r == FindPoolFor(lst, output)
           IN /\ probes' = Append(probes, Probe("direct", from_token, to_token, r.found))
              /\ output' = r.path
              /\ IF r.found
                 THEN /\ Return(caller, r.path, 123)
                      /\ UNCHANGED <<idx, second_link_asset, link_asset,
                                     found_first_link, found_second_link>>
                 ELSE AfterDirect(caller, from_token, to_token)
    /\ UNCHANGED <<resolverVars, otherVars>>
    /\ UNCHANGED <<caller, args, query, from_token, to_token, fetched, prices_and_tokens>>

\* lines 133-140: the hop from_asset - routing asset
ProbeFirstLink ==
    /\ pc = "first_link"
    /\ LET asset == routing_assets[idx]
       IN \E lst \in PoolLists(from_token, asset) :
        /\ CanAnswer(from_token, asset, lst)
        /\ pools' = Revealed(from_token, asset, lst)
        /\ LET r == FindPoolFor(lst, output)
           IN /\ probes' = Append(probes, Probe("first", from_token, asset, r.found))
              /\ output' = r.path
              /\ found_first_link' = r.found
              /\ IF r.found
                 THEN /\ link_asset' = asset
                      /\ pc' = "second_link"
                      /\ UNCHANGED <<idx, route, ret, result, second_link_asset>>
                 ELSE /\ link_asset' = link_asset
                      /\ Loop1From(caller, from_token, to_token, idx + 1, r.found)
    /\ UNCHANGED <<resolverVars, otherVars>>
    /\ UNCHANGED <<caller, args, query, from_token, to_token, found_second_link,
                   fetched, prices_and_tokens>>

\* lines 141-147: the hop to_asset - link_asset
ProbeSecondLink ==
    /\ pc = "second_link"
    /\ \E lst \in PoolLists(to_token, link_asset) :
        /\ CanAnswer(to_token, link_asset, lst)
        /\ pools' = Revealed(to_token, link_asset, lst)
        /\ LET r == FindPoolFor(lst, output)
           IN /\ probes' = Append(probes, Probe("second", to_token, link_asset, r.found))
              /\ output' = r.path
              /\ found_second_link' = r.found
              /\ IF r.found
                 THEN /\ Return(caller, r.path, 147)
                      /\ UNCHANGED <<idx, second_link_asset>>
                 ELSE Loop1From(caller, from_token, to_token, idx + 1, found_first_link)
    /\ UNCHANGED <<resolverVars, otherVars>>
    /\ UNCHANGED <<caller, args, query, from_token, to_token, link_asset,
                   found_first_link, fetched, prices_and_tokens>>

\* AfterLoop2 without the early return of lines 167-168
AfterLoop2_NoEarlyReturn(fsl, sla) ==
    IF sla = None \/ link_asset = None
    THEN pc' = "done" /\ result' = Raise("AssertionError") /\ UNCHANGED <<route, ret>>
    ELSE pc' = "closing" /\ UNCHANGED <<route, ret, result>>

\* lines 167-172, with the values the second loop left
AfterLoop2(fsl, sla) ==
    IF ~fsl
    THEN Return(caller, <<>>, 168)
    ELSE IF sla = None \/ link_asset = None
    THEN pc' = "done" /\ result' = Raise("AssertionError") /\ UNCHANGED <<route, ret>>
    ELSE pc' = "closing" /\ UNCHANGED <<route, ret, result>>

\* lines 156-165: the hop to_asset - routing asset
ProbeThirdLink ==
    /\ pc = "third_link"
    /\ LET asset == routing_assets[idx]
       IN \E lst \in PoolLists(to_token, asset) :
        /\ CanAnswer(to_token, asset, lst)
        /\ pools' = Revealed(to_token, asset, lst)
        /\ LET r == FindPoolFor(lst, output)
               j == NextIdx(idx + 1, to_token)
           IN /\ probes' = Append(probes, Probe("third", to_token, asset, r.found))
              /\ output' = r.path
              /\ found_second_link' = r.found
              /\ IF r.found
                 THEN /\ second_link_asset' = asset
                      /\ idx' = idx
                      /\ AfterLoop2(r.found, asset)
                 ELSE IF j <= Len(routing_assets)
                 THEN /\ idx' = j
                      /\ UNCHANGED <<pc, route, ret, result, second_link_asset>>
                 ELSE /\ UNCHANGED <<idx, second_link_asset>>
                      /\ AfterLoop2(r.found, second_link_asset)
    /\ UNCHANGED <<resolverVars, otherVars>>
    /\ UNCHANGED <<caller, args, query, from_token, to_token, link_asset,
                   found_first_link, fetched, prices_and_tokens>>

\* lines 173-179: the hop link_asset - second_link_asset
ProbeClosing ==
    /\ pc = "closing"
    /\ \E lst \in PoolLists(link_asset, second_link_asset) :
        /\ CanAnswer(link_asset, second_link_asset, lst)
        /\ pools' = Revealed(link_asset, second_link_asset, lst)
        /\ LET k == FirstPool(lst, 1)
           IN /\ probes' = Append(probes, Probe("closing", link_asset, second_link_asset, k # 0))
              /\ IF k # 0
                 THEN /\ output' = Insert1(output, lst[k])
                      /\ Return(caller, Insert1(output, lst[k]), 177)
                 ELSE /\ output' = output
                      /\ Return(caller, <<>>, 179)
    /\ UNCHANGED <<resolverVars, otherVars>>
    /\ UNCHANGED <<caller, args, query, from_token, to_token, link_asset, second_link_asset,
                   found_first_link, found_second_link, idx, fetched, prices_and_tokens>>

(* ------------------------------------------------------------------ *)
(* UniswapOracle.get_price                                            *)
(* ------------------------------------------------------------------ *)
\* Substitute without the replacement of lines 199-203
Substitute_Kept(a) == a

\* lines 199-203: ETH is replaced by WETH
Substitute(a) == IF a = A_ETH THEN weth ELSE a

\* EarlyOutcome without the same-token return of lines 211-212
EarlyOutcome_NoShortcut(f, t) ==
    IF ~IsEvmToken(f) \/ ~IsEvmToken(t) THEN "WrongAssetType"
    ELSE IF TokenKind(f) # "ERC20" \/ TokenKind(t) # "ERC20" THEN "kind"
    ELSE "find_route"

\* EarlyOutcome with line 214 rejecting only when both kinds are wrong
EarlyOutcome_BothKinds(f, t) ==
    IF ~IsEvmToken(f) \/ ~IsEvmToken(t) THEN "WrongAssetType"
    ELSE IF f = t THEN "same"
    ELSE IF TokenKind(f) # "ERC20" /\ TokenKind(t) # "ERC20" THEN "kind"
    ELSE "find_route"

\* lines 205-215 for the two assets after substitution: which way get_price
\* leaves its checks
EarlyOutcome(f, t) ==
    IF ~IsEvmToken(f) \/ ~IsEvmToken(t) THEN "WrongAssetType"
    ELSE IF f = t THEN "same"
    ELSE IF TokenKind(f) # "ERC20" \/ TokenKind(t) # "ERC20" THEN "kind"
    ELSE "find_route"

\* lines 199-217: get_price up to its call of find_route and into find_route
\* up to the first get_pool call, for the arguments fa and ta
GetPriceBody(fa, ta) ==
    /\ pc = "idle"
    /\ caller' = "get_price"
    /\ LET f == Substitute(fa)
           t == Substitute(ta)
           o == EarlyOutcome(f, t)
       IN /\ from_token' = IF IsEvmToken(f) THEN f ELSE None
          /\ to_token' = IF IsEvmToken(f) /\ IsEvmToken(t) THEN t ELSE None
          /\ IF o = "find_route"
             THEN EnterFindRoute("get_price", f, t)
             ELSE /\ pc' = "done"
                  /\ result' = IF o = "same" THEN PriceResult(ONE)
                               ELSE Raise("PriceQueryUnsupportedAsset")
                  /\ UNCHANGED <<output, idx, route, ret, second_link_asset,
                                 link_asset, found_first_link, found_second_link>>
    /\ UNCHANGED <<pools, probes, fetched, prices_and_tokens>>
    /\ UNCHANGED <<resolverVars, otherVars>>

\* a caller invokes get_price itself
GetPrice(fa, ta) ==
    /\ GetPriceBody(fa, ta)
    /\ args' = <<fa, ta>>
    /\ query' = NoQuery

\* lines 266-269: the assets query_current_price hands to get_price
QuerySubstitute(fa, ta) ==
    IF ta = A_USD THEN <<fa, A_USDC>>
    ELSE IF fa = A_USD THEN <<A_USDC, ta>>
    ELSE <<fa, ta>>

\* lines 266-276: query_current_price up to the first get_pool call of the
\* get_price it calls; it returns what that get_price returns, paired with
\* False, and raises what it raises
QueryCurrentPrice(fa, ta) ==
    LET a == QuerySubstitute(fa, ta)
    IN /\ GetPriceBody(a[1], a[2])
       /\ args' = a
       /\ query' = <<fa, ta>>

\* a Python index into a list, as a position of the sequence
PyIndex(lst, i) == IF i < 0 THEN Len(lst) + i + 1 ELSE i + 1

\* lines 235-236
OrientFirst(pt, f) ==
    IF pt[1].token_0 # f THEN [pt EXCEPT ![1] = SwapTokens(pt[1])] ELSE pt

RECURSIVE OrientInterior(_, _, _)
\* lines 239-241: items is the slice prices_and_tokens[1:-1] taken before the
\* loop, pos the enumerate() counter
OrientInterior(pt, items, pos) ==
    IF pos >= Len(items) THEN pt
    ELSE LET item == items[pos + 1]
             k == PyIndex(pt, pos - 1)
         IN OrientInterior(
                IF item.token_0 # pt[k].token_1
                THEN [pt EXCEPT ![k] = SwapTokens(pt[k])]
                ELSE pt,
                items, pos + 1)

\* OrientLast without the check of lines 244-245
OrientLast_Kept(pt, t) == pt

\* lines 244-245
OrientLast(pt, t) ==
    LET n == Len(pt)
    IN IF pt[n].token_1 # t THEN [pt EXCEPT ![n] = SwapTokens(pt[n])] ELSE pt

\* lines 234-245: prices_and_tokens after the three orientation steps
Orient(pt, f, t) ==
    LET first == OrientFirst(pt, f)
        inner == OrientInterior(first, SubSeq(first, 2, Len(first) - 1), 0)
    IN OrientLast(inner, t)

RECURSIVE Product(_, _)
\* line 247: reduce(mul, [item.price for item in prices_and_tokens], 1)
Product(pt, i) ==
    IF i = 0 THEN ONE ELSE Mul(Product(pt, i - 1), pt[i].price)

\* what get_pool_price may return for the pool at addr
PoolPrices(addr) ==
    {[price |-> p, token_0 |-> a, token_1 |-> b] :
        p \in Prices, a \in addr, b \in addr} \ 
    {[price |-> p, token_0 |-> a, token_1 |-> a] : p \in Prices, a \in addr}

\* PoolFailed with the failing hop swallowed and the price given as 0
PoolFailed_Swallowed ==
    /\ pc' = "done"
    /\ result' = PriceResult(ZERO)
    /\ UNCHANGED <<fetched, prices_and_tokens>>

\* lines 227-232: get_pool_price raises DefiPoolError and get_price, which
\* catches nothing, ends with it
PoolFailed ==
    /\ pc' = "done"
    /\ result' = Raise("DefiPoolError")
    /\ UNCHANGED <<fetched, prices_and_tokens>>

\* lines 224-248: one get_pool_price call, and after the last one the
\* orientation and the product
GetPoolPrice ==
    /\ pc = "get_pool_price"
    /\ LET step == route[Len(fetched) + 1]
       IN \/ PoolFailed
          \/ \E pp \in PoolPrices(step) :
                /\ fetched' = Append(fetched, pp)
                /\ IF Len(fetched) + 1 = Len(route)
                   THEN LET pt == Orient(Append(prices_and_tokens, pp), from_token, to_token)
                        IN /\ prices_and_tokens' = pt
                           /\ result' = PriceResult(Product(pt, Len(pt)))
                           /\ pc' = "done"
                   ELSE /\ prices_and_tokens' = Append(prices_and_tokens, pp)
                        /\ UNCHANGED <<pc, result>>
    /\ UNCHANGED <<resolverVars, otherVars>>
    /\ UNCHANGED <<caller, args, query, from_token, to_token, pools, output, link_asset,
                   second_link_asset, found_first_link, found_second_link, idx,
                   probes, route, ret>>

Next ==
    \/ \E fa \in Assets, ta \in Assets : GetPrice(fa, ta)
    \/ \E fa \in Assets, ta \in Assets : QueryCurrentPrice(fa, ta)
    \/ \E f \in ERC20Tokens, t \in ERC20Tokens : FindRoute(f, t)
    \/ ProbeDirect
    \/ ProbeFirstLink
    \/ ProbeSecondLink
    \/ ProbeThirdLink
    \/ ProbeClosing
    \/ GetPoolPrice

Spec == Init /\ [][Next]_vars

(* ------------------------------------------------------------------ *)
(* Numbers: Python int, float and Decimal                             *)
(* A natural number of any size is the sequence of its base-10000      *)
(* digits ("limbs"), most significant first, without leading zeros:    *)
(* 0 is <<>>, 49990 is <<4, 9990>>.                                    *)
(* ------------------------------------------------------------------ *)
BigBase == 10000

\* a without its leading zeros
BigStrip(a) ==
    IF \A i \in 1..Len(a) : a[i] = 0 THEN <<>>
    ELSE SubSeq(a, CHOOSE i \in 1..Len(a) :
                       a[i] # 0 /\ \A j \in 1..(i - 1) : a[j] = 0, Len(a))

\* a with leading zeros up to n limbs
BigPad(a, n) ==
    [i \in 1..n |-> IF i <= n - Len(a) THEN 0 ELSE a[i - (n - Len(a))]]

\* k zero limbs
BigZeros(k) == [i \in 1..k |-> 0]

RECURSIVE BigFromNat(_)
BigFromNat(n) ==
    IF n = 0 THEN <<>> ELSE Append(BigFromNat(n \div BigBase), n % BigBase)

BigLess(a, b) ==
    \/ Len(a) < Len(b)
    \/ /\ Len(a) = Len(b)
       /\ \E i \in 1..Len(a) : a[i] < b[i] /\ \A j \in 1..(i - 1) : a[j] = b[j]

RECURSIVE BigAddFrom(_, _, _, _)
\* a[1..i] + b[1..i] + carry, for a and b of one length
BigAddFrom(a, b, i, carry) ==
    IF i = 0 THEN BigFromNat(carry)
    ELSE LET s == a[i] + b[i] + carry
         IN Append(BigAddFrom(a, b, i - 1, s \div BigBase), s % BigBase)

BigAdd(a, b) ==
    LET n == IF Len(a) > Len(b) THEN Len(a) ELSE Len(b)
    IN BigAddFrom(BigPad(a, n), BigPad(b, n), n, 0)

RECURSIVE BigSubFrom(_, _, _, _)
\* a[1..i] - b[1..i] - borrow, for a and b of one length and a >= b
BigSubFrom(a, b, i, borrow) ==
    IF i = 0 THEN <<>>
    ELSE LET s == a[i] - b[i] - borrow
         IN IF s < 0 THEN Append(BigSubFrom(a, b, i - 1, 1), s + BigBase)
            ELSE Append(BigSubFrom(a, b, i - 1, 0), s)

\* a - b, for a >= b
BigSub(a, b) == BigStrip(BigSubFrom(a, BigPad(b, Len(a)), Len(a), 0))

RECURSIVE BigMulSmallFrom(_, _, _, _)
BigMulSmallFrom(a, k, i, carry) ==
    IF i = 0 THEN BigFromNat(carry)
    ELSE LET s == a[i] * k + carry
         IN Append(BigMulSmallFrom(a, k, i - 1, s \div BigBase), s % BigBase)

\* a * k for 0 <= k <= BigBase
BigMulSmall(a, k) == IF k = 0 THEN <<>> ELSE BigMulSmallFrom(a, k, Len(a), 0)

\* a * BigBase^k
BigShiftLimbs(a, k) == IF a = <<>> THEN <<>> ELSE a \o BigZeros(k)

RECURSIVE BigMulBy(_, _, _)
\* a * b[1..i]
BigMulBy(a, b, i) ==
    IF i = 0 THEN <<>>
    ELSE BigAdd(BigShiftLimbs(BigMulBy(a, b, i - 1), 1), BigMulSmall(a, b[i]))

BigMul(a, b) ==
    IF Len(a) < Len(b) THEN BigMulBy(b, a, Len(a)) ELSE BigMulBy(a, b, Len(b))

\* half * half * k
BigSquareTimes(half, k) == BigMulSmall(BigMul(half, half), k)

RECURSIVE BigPow(_, _)
\* base ^ e for 0 < base <= BigBase
BigPow(base, e) ==
    IF e = 0 THEN <<1>>
    ELSE BigSquareTimes(BigPow(base, e \div 2), IF e % 2 = 1 THEN base ELSE 1)

RECURSIVE SmallPow(_, _)
\* base ^ e as a machine number
SmallPow(base, e) == IF e = 0 THEN 1 ELSE base * SmallPow(base, e - 1)

\* a * 10^k
BigShift10(a, k) == BigShiftLimbs(BigMulSmall(a, SmallPow(10, k % 4)), k \div 4)

\* the number of decimal digits of a
BigDigits(a) ==
    IF a = <<>> THEN 0
    ELSE 4 * (Len(a) - 1) + (CHOOSE n \in 1..4 :
                                SmallPow(10, n - 1) <= a[1] /\ a[1] < SmallPow(10, n))

RECURSIVE BigFit(_, _, _)
\* the largest q' <= q with q' * b <= r
BigFit(q, b, r) ==
    IF BigLess(r, BigMulSmall(b, q)) THEN BigFit(q - 1, b, r) ELSE q

RECURSIVE BigDivFrom(_, _, _, _, _)
RECURSIVE BigDivLimb(_, _, _, _, _)
RECURSIVE BigDivNext(_, _, _, _, _, _)
\* schoolbook division of a by b from limb i of a on, for b[1] >= BigBase / 2;
\* q and r are the quotient and the remainder of a[1..i-1]
BigDivFrom(a, b, i, q, r) ==
    IF i > Len(a) THEN [q |-> BigStrip(q), r |-> r, d |-> b]
    ELSE BigDivLimb(a, b, i, q, BigStrip(Append(r, a[i])))

\* the estimate of the next limb of the quotient from the two top limbs
BigGuess(top, b1) ==
    IF (top[1] * BigBase + top[2]) \div b1 >= BigBase THEN BigBase - 1
    ELSE (top[1] * BigBase + top[2]) \div b1

\* the step of BigDivFrom for the running remainder cur
BigDivLimb(a, b, i, q, cur) ==
    BigDivNext(a, b, i, q, cur, BigFit(BigGuess(BigPad(cur, Len(b) + 1), b[1]), b, cur))

\* the step of BigDivFrom once the limb of the quotient is known
BigDivNext(a, b, i, q, cur, limb) ==
    BigDivFrom(a, b, i + 1, Append(q, limb), BigSub(cur, BigMulSmall(b, limb)))

\* a and b both scaled by f
BigDivBy(a, b, f) == BigDivFrom(BigMulSmall(a, f), BigMulSmall(b, f), 1, <<>>, <<>>)

\* quotient q of a by b, for b > 0, with the remainder r and the divisor d
\* both scaled by one factor, so that a * (d / b) = q * d + r and r < d
BigDivScaled(a, b) == BigDivBy(a, b, BigBase \div (b[1] + 1))

\* the quotient q with remainder twice / 2 of a division by d rounds up
BigRoundsUp(q, d, twice) ==
    BigLess(d, twice) \/ (twice = d /\ q # <<>> /\ q[Len(q)] % 2 = 1)

BigRoundHalfEven(res) ==
    IF BigRoundsUp(res.q, res.d, BigMulSmall(res.r, 2))
    THEN BigAdd(res.q, <<1>>) ELSE res.q

\* a / b rounded to the nearest natural number, ties to even, for b > 0
BigDivRound(a, b) == BigRoundHalfEven(BigDivScaled(a, b))

\* ---- Decimal: coef * 10^exp ----
\* the Decimal of the natural number n
DecOfNat(n) == [coef |-> BigFromNat(n), exp |-> 0]

\* numerator and denominator of the Decimal x as a fraction
DecNum(x) == BigShift10(x.coef, IF x.exp > 0 THEN x.exp ELSE 0)
DecDen(x) == BigShift10(<<1>>, IF x.exp < 0 THEN 0 - x.exp ELSE 0)

\* the Decimal x is the fraction n / d
DecIsRatio(x, n, d) == BigMul(DecNum(x), d) = BigMul(n, DecDen(x))

\* x == y for two Decimals
DecEqual(x, y) == DecIsRatio(x, DecNum(y), DecDen(y))

\* the precision of the decimal context: significant digits of a result
DecimalPrecision == 28

\* 1 / x for a Decimal x # 0: the quotient rounded to DecimalPrecision
\* significant digits, ties to even
DecInverse(x) ==
    LET k == BigDigits(x.coef) + DecimalPrecision - 1
    IN [coef |-> BigDivRound(BigShift10(<<1>>, k), x.coef), exp |-> 0 - x.exp - k]

\* ---- float: m * 2^e with 2^52 <= m < 2^53, or 0.0 ----
FloatMantissaBits == 53
FloatZero == [m |-> <<>>, e |-> 0]
MantissaLow == BigPow(2, FloatMantissaBits - 1)
MantissaHigh == BigPow(2, FloatMantissaBits)

RECURSIVE ScaleInto(_, _, _, _)
\* n, d, s with 1 <= n / d < base and n / d = (the given n / d) * base^s
ScaleInto(base, n, d, s) ==
    IF BigLess(n, d) THEN ScaleInto(base, BigMulSmall(n, base), d, s + 1)
    ELSE IF ~BigLess(n, BigMulSmall(d, base))
    THEN ScaleInto(base, n, BigMulSmall(d, base), s - 1)
    ELSE [n |-> n, d |-> d, s |-> s]

\* the float nearest to n / d, ties to even, for n > 0
FloatNormal(m, e) ==
    IF m = MantissaHigh THEN [m |-> MantissaLow, e |-> e + 1]
    ELSE [m |-> m, e |-> e]

FloatOfScaled(sc) ==
    FloatNormal(BigDivRound(BigMul(sc.n, MantissaLow), sc.d),
                1 - FloatMantissaBits - sc.s)

RoundToFloat(n, d) == FloatOfScaled(ScaleInto(2, n, d, 0))

FloatNum(x) == BigMul(x.m, BigPow(2, IF x.e > 0 THEN x.e ELSE 0))
FloatDen(x) == BigPow(2, IF x.e < 0 THEN 0 - x.e ELSE 0)

\* a / b of two ints, a >= 0 and b > 0: true division, correctly rounded
IntTrueDiv(a, b) ==
    IF a = 0 THEN FloatZero ELSE RoundToFloat(BigFromNat(a), BigFromNat(b))

\* x * y of two floats
FloatMul(x, y) ==
    LET e == x.e + y.e
    IN IF x.m = <<>> \/ y.m = <<>> THEN FloatZero
       ELSE
       RoundToFloat(BigMul(BigMul(x.m, y.m), BigPow(2, IF e > 0 THEN e ELSE 0)),
                    BigPow(2, IF e < 0 THEN 0 - e ELSE 0))

\* n / d rounded to k significant decimal digits, ties to even
DigitsOfScaled(sc, k) ==
    [coef |-> BigDivRound(BigShift10(sc.n, k - 1), sc.d), exp |-> 1 - k - sc.s]

RoundToDigits(n, d, k) == DigitsOfScaled(ScaleInto(10, n, d, 0), k)

\* digits enough to tell any two floats apart
FloatReprMaxDigits == 17

\* the Decimal of k digits nearest to the float x reads back as x
ReadsBackAs(x, c) == RoundToFloat(DecNum(c), DecDen(c)) = x

ReadsBack(x, k) == ReadsBackAs(x, RoundToDigits(FloatNum(x), FloatDen(x), k))

RECURSIVE FewestDigits(_, _, _)
\* the least k in lo..hi with ReadsBack(x, k), which holds for hi and from
\* the least such k on
FewestDigits(x, lo, hi) ==
    IF lo = hi THEN lo
    ELSE LET mid == (lo + hi) \div 2
         IN IF ReadsBack(x, mid) THEN FewestDigits(x, lo, mid)
            ELSE FewestDigits(x, mid + 1, hi)

\* repr(x) read as a Decimal: the shortest digit string that reads back as x
FloatRepr(x) ==
    RoundToDigits(FloatNum(x), FloatDen(x), FewestDigits(x, 1, FloatReprMaxDigits))

\* FVal(x) of a float x: Decimal(str(x))
FValOfFloat(x) == IF x = FloatZero THEN DecOfNat(0) ELSE FloatRepr(x)

(* ------------------------------------------------------------------ *)
(* The pool resolvers: UniswapV2Oracle and UniswapV3Oracle             *)
(* Each call is one step: rcall holds the call with the answers of its *)
(* collaborators, rret what the method returns or raises.  The methods *)
(* keep no state between calls, so a behaviour makes one call.         *)
(* ------------------------------------------------------------------ *)
\* V2GetPoolList with the null address answered by the empty list
V2GetPoolList_Emptied(pair) == IF pair = ZERO_ADDRESS THEN <<>> ELSE <<pair>>

\* lines 396-404: the list UniswapV2Oracle.get_pool returns, given the
\* address the factory's getPair answered
V2GetPoolList(pair) == <<pair>>

\* lines 390-404: UniswapV2Oracle.get_pool, getPair answering pair
V2GetPool(t0, t1, pair) ==
    /\ rcall = NoCall
    /\ rcall' = [op |-> "v2_get_pool", token_0 |-> t0, token_1 |-> t1, pair |-> pair]
    /\ rret' = [kind |-> "list", pools |-> V2GetPoolList(pair)]
    /\ UNCHANGED <<oracleVars, otherVars>>

\* line 299: the fee tiers, in the order they are asked
FeeTiers == <<3000, 500, 10000>>
\* the address of the pool of a fee tier, named by the fee
FeePool(i) == {FeeTiers[i]}
Liquidities == {500 * k : k \in 0..MaxLiquidity}

RECURSIVE V3Scan_MaxKept(_, _, _, _, _)
\* V3Scan without the update of max_liquidity of line 321
V3Scan_MaxKept(cands, liq, i, best_pool, max_liquidity) ==
    IF i > Len(cands) THEN [best_pool |-> best_pool, max_liquidity |-> max_liquidity]
    ELSE IF cands[i] = ZERO_ADDRESS
    THEN V3Scan_MaxKept(cands, liq, i + 1, best_pool, max_liquidity)
    ELSE IF liq[i] > 0
    THEN V3Scan_MaxKept(cands, liq, i + 1, cands[i], 1)
    ELSE V3Scan_MaxKept(cands, liq, i + 1, best_pool, max_liquidity)

RECURSIVE V3Scan(_, _, _, _, _)
\* lines 304-321: the loop over the getPool answers from position i on
V3Scan(cands, liq, i, best_pool, max_liquidity) ==
    IF i > Len(cands) THEN [best_pool |-> best_pool, max_liquidity |-> max_liquidity]
    ELSE IF cands[i] = ZERO_ADDRESS
    THEN V3Scan(cands, liq, i + 1, best_pool, max_liquidity)
    ELSE IF liq[i] > max_liquidity
    THEN V3Scan(cands, liq, i + 1, cands[i], liq[i])
    ELSE V3Scan(cands, liq, i + 1, best_pool, max_liquidity)

\* lines 303-326: the list UniswapV3Oracle.get_pool returns, given the
\* addresses getPool answered and the liquidity of each pool
V3GetPoolList(cands, liq) ==
    LET r == V3Scan(cands, liq, 1, cands[1], 0)
    IN IF r.max_liquidity = 0 THEN <<>> ELSE <<r.best_pool>>

\* which fee tiers have a pool: getPool answers the null address for the rest
Candidates == [1..Len(FeeTiers) -> BOOLEAN]

\* lines 286-326: UniswapV3Oracle.get_pool, the pool of tier i having
\* liquidity liq[i]
V3GetPool(present, liq) ==
    LET cands == [i \in 1..Len(FeeTiers) |->
                    IF present[i] THEN FeePool(i) ELSE ZERO_ADDRESS]
    IN /\ rcall = NoCall
       /\ rcall' = [op |-> "v3_get_pool", cands |-> cands, liq |-> liq]
       /\ rret' = [kind |-> "list", pools |-> V3GetPoolList(cands, liq)]
       /\ UNCHANGED <<oracleVars, otherVars>>

SINGLE_SIDE_USD_POOL_LIMIT == 5000

RECURSIVE Pow10(_)
\* 10 ** d
Pow10(d) == IF d = 0 THEN 1 ELSE 10 * Pow10(d - 1)

\* lines 373 and 462: 10 ** (decimals_0 - decimals_1), an int or, for a
\* negative exponent, a float; as the float it is multiplied as
DecimalsConstant(decimals_0, decimals_1) ==
    IF decimals_0 >= decimals_1
    THEN RoundToFloat(BigShift10(<<1>>, decimals_0 - decimals_1), <<1>>)
    ELSE RoundToFloat(<<1>>, BigShift10(<<1>>, decimals_1 - decimals_0))

\* line 476: FVal((reserve_1 / reserve_0) * decimals_constant)
V2Price(reserve_0, reserve_1, decimals_0, decimals_1) ==
    FValOfFloat(FloatMul(IntTrueDiv(reserve_1, reserve_0),
                         DecimalsConstant(decimals_0, decimals_1)))

\* line 375: FVal((sqrt_price_x96 * sqrt_price_x96) / 2 ** (192) *
\* decimals_constant), for sqrt_price_x96 = sqrt * 2^96
V3Price(sqrt, decimals_0, decimals_1) ==
    FValOfFloat(FloatMul(IntTrueDiv(sqrt * sqrt, 1),
                         DecimalsConstant(decimals_0, decimals_1)))

\* what EvmToken(identifier) does for the address a pool names as its token
Resolutions == {"ok", "UnknownAsset", "WrongAssetType"}
\* EvmToken.decimals: None or a number
DecimalsValues ==
    {[known |-> FALSE, value |-> 0]} \cup
    {[known |-> TRUE, value |-> d] : d \in 0..MaxDecimals}
\* raw reserves: none, dust, and just below and at the limit for a USD price
\* of 1 at each number of decimals
Reserves ==
    {0, 1} \cup
    {(SINGLE_SIDE_USD_POOL_LIMIT - 1) * Pow10(d) : d \in 0..MaxDecimals} \cup
    {SINGLE_SIDE_USD_POOL_LIMIT * Pow10(d) : d \in 0..MaxDecimals}
UsdPrices == 0..MaxUsdPrice

\* token_normalized_value(token_amount, token): token_amount / 10 ** decimals,
\* as a fraction
TokenNormalizedValue(amount, decimals) == <<amount, Pow10(decimals)>>

\* UsdValueBelowLimit with <= for <
UsdValueBelowLimit_OrEqual(usd, amount, decimals) ==
    LET v == TokenNormalizedValue(amount, decimals)
    IN usd # 0 /\ usd * v[1] <= SINGLE_SIDE_USD_POOL_LIMIT * v[2]

\* lines 471 and 473: the test that rejects a side of the pool
UsdValueBelowLimit(usd, amount, decimals) ==
    LET v == TokenNormalizedValue(amount, decimals)
    IN usd # 0 /\ usd * v[1] < SINGLE_SIDE_USD_POOL_LIMIT * v[2]

ResolverRaise(e, lookups) ==
    [kind |-> e, price |-> DecOfNat(0), token_0 |-> None, token_1 |-> None,
     usd_lookups |-> lookups]
ResolverPoolPrice(p, lookups) ==
    [kind |-> "PoolPrice", price |-> p, token_0 |-> "token0", token_1 |-> "token1",
     usd_lookups |-> lookups]

\* V2GetPoolPriceResult with the USD liquidity test ahead of the reserve test
V2GetPoolPriceResult_UsdFirst(in) ==
    IF in.res0 # "ok" \/ in.res1 # "ok" THEN ResolverRaise("DefiPoolError", 0)
    ELSE IF ~in.dec0.known \/ ~in.dec1.known THEN ResolverRaise("DefiPoolError", 0)
    ELSE IF UsdValueBelowLimit(in.usd0, in.reserve_0, in.dec0.value)
    THEN ResolverRaise("DefiPoolError", 2)
    ELSE IF UsdValueBelowLimit(in.usd1, in.reserve_1, in.dec1.value)
    THEN ResolverRaise("DefiPoolError", 2)
    ELSE IF in.reserve_0 = 0 \/ in.reserve_1 = 0 THEN ResolverRaise("DefiPoolError", 2)
    ELSE ResolverPoolPrice(V2Price(in.reserve_0, in.reserve_1,
                                   in.dec0.value, in.dec1.value), 2)

\* lines 440-477: what UniswapV2Oracle.get_pool_price returns or raises and
\* how many find_usd_price lookups it made
V2GetPoolPriceResult(in) ==
    IF in.res0 # "ok" THEN ResolverRaise("DefiPoolError", 0)
    ELSE IF in.res1 # "ok" THEN ResolverRaise("DefiPoolError", 0)
    ELSE IF ~in.dec0.known THEN ResolverRaise("DefiPoolError", 0)
    ELSE IF ~in.dec1.known THEN ResolverRaise("DefiPoolError", 0)
    ELSE IF in.reserve_0 = 0 \/ in.reserve_1 = 0 THEN ResolverRaise("DefiPoolError", 0)
    ELSE IF UsdValueBelowLimit(in.usd0, in.reserve_0, in.dec0.value)
    THEN ResolverRaise("DefiPoolError", 2)
    ELSE IF UsdValueBelowLimit(in.usd1, in.reserve_1, in.dec1.value)
    THEN ResolverRaise("DefiPoolError", 2)
    ELSE ResolverPoolPrice(V2Price(in.reserve_0, in.reserve_1,
                                   in.dec0.value, in.dec1.value), 2)

V2Inputs ==
    [res0 : Resolutions, res1 : Resolutions,
     dec0 : DecimalsValues, dec1 : DecimalsValues,
     reserve_0 : Reserves, reserve_1 : Reserves,
     usd0 : UsdPrices, usd1 : UsdPrices]

\* lines 406-477: UniswapV2Oracle.get_pool_price
V2GetPoolPrice(in) ==
    /\ rcall = NoCall
    /\ rcall' = [op |-> "v2_get_pool_price", in |-> in]
    /\ rret' = V2GetPoolPriceResult(in)
    /\ UNCHANGED <<oracleVars, otherVars>>

\* lines 361-380: what UniswapV3Oracle.get_pool_price returns or raises;
\* in.sqrt is sqrtPriceX96 / 2^96
V3GetPoolPriceResult(in) ==
    IF in.res0 # "ok" THEN ResolverRaise(in.res0, 0)
    ELSE IF in.res1 # "ok" THEN ResolverRaise(in.res1, 0)
    ELSE IF ~in.dec0.known THEN ResolverRaise("DefiPoolError", 0)
    ELSE IF ~in.dec1.known THEN ResolverRaise("DefiPoolError", 0)
    ELSE LET price == V3Price(in.sqrt, in.dec0.value, in.dec1.value)
         IN IF price = DecOfNat(0) THEN ResolverRaise("DefiPoolError", 0)
            ELSE ResolverPoolPrice(price, 0)

V3Inputs ==
    [res0 : Resolutions, res1 : Resolutions,
     dec0 : DecimalsValues, dec1 : DecimalsValues,
     sqrt : 0..MaxSqrtPrice]

\* lines 328-380: UniswapV3Oracle.get_pool_price
V3GetPoolPrice(in) ==
    /\ rcall = NoCall
    /\ rcall' = [op |-> "v3_get_pool_price", in |-> in]
    /\ rret' = V3GetPoolPriceResult(in)
    /\ UNCHANGED <<oracleVars, otherVars>>

\* one call of one resolver method, its inputs chosen once no call was made
ResolverNext ==
    \/ rcall = NoCall /\ \E in \in V2Inputs : V2GetPoolPrice(in)
    \/ rcall = NoCall /\ \E in \in V3Inputs : V3GetPoolPrice(in)
    \/ rcall = NoCall /\
            \E t0 \in ERC20Tokens, t1 \in ERC20Tokens, exists \in BOOLEAN :
                /\ t0 # t1
                /\ V2GetPool(t0, t1, IF exists THEN PoolAddr(t0, t1) ELSE ZERO_ADDRESS)
    \/ rcall = NoCall /\
            \E present \in Candidates, liq \in [1..Len(FeeTiers) -> Liquidities] :
                V3GetPool(present, liq)

SpecResolver == Init /\ [][ResolverNext]_vars

(* ------------------------------------------------------------------ *)
(* PoolPrice.swap_tokens on Decimal prices                             *)
(* rcall holds the PoolPrice that was built, rret.trail that PoolPrice *)
(* followed by the result of each swap_tokens call made since.         *)
(* ------------------------------------------------------------------ *)
\* swap_tokens with the price left as it is
swap_tokens_PriceKept(p) ==
    [price |-> p.price, token_0 |-> p.token_1, token_1 |-> p.token_0]

\* lines 41-46: PoolPrice.swap_tokens, the price being an FVal
swap_tokens(p) ==
    [price |-> DecInverse(p.price), token_0 |-> p.token_1, token_1 |-> p.token_0]

\* PoolPrices of a nonzero price, as get_pool_price returns them
SwappablePoolPrices ==
    {[price |-> [coef |-> BigFromNat(k), exp |-> 0 - d], token_0 |-> a, token_1 |-> b] :
        k \in 1..MaxCoefficient, d \in 0..MaxDecimals,
        a \in {"token0", "token1"}, b \in {"token0", "token1"}} \
    {[price |-> [coef |-> BigFromNat(k), exp |-> 0 - d], token_0 |-> a, token_1 |-> a] :
        k \in 1..MaxCoefficient, d \in 0..MaxDecimals, a \in {"token0", "token1"}}

\* lines 37-40: a PoolPrice is built
MakePoolPrice(p) ==
    /\ rcall = NoCall
    /\ rcall' = [op |-> "PoolPrice", p |-> p]
    /\ rret' = [kind |-> "PoolPrice", trail |-> <<p>>]
    /\ UNCHANGED <<oracleVars, otherVars>>

\* lines 41-46: swap_tokens is called on the PoolPrice the last call returned,
\* twice at most
SwapTokensCall ==
    /\ rcall.op = "PoolPrice"
    /\ Len(rret.trail) < 3
    /\ rret' = [rret EXCEPT !.trail = Append(@, swap_tokens(@[Len(@)]))]
    /\ UNCHANGED <<rcall, oracleVars, otherVars>>

PoolPriceNext ==
    \/ rcall = NoCall /\ \E p \in SwappablePoolPrices : MakePoolPrice(p)
    \/ SwapTokensCall

SpecPoolPrice == Init /\ [][PoolPriceNext]_vars

(* ------------------------------------------------------------------ *)
(* DBHistoryEvents: the history_events table and its mappings          *)
(* A row of history_events is its identifier, event_identifier and     *)
(* sequence_index; the other columns play no part in these methods.    *)
(* ------------------------------------------------------------------ *)
MaxEvents == 2
MaxSequenceIndex == 1
MaxIdentifiers == 2

TxHashes == {"tx1", "tx2"}
ChainIds == {"ethereum", "optimism"}
HISTORY_MAPPING_KEY_STATE == "state"
HISTORY_MAPPING_KEY_CHAINID == "chain_id"
HISTORY_MAPPING_STATE_CUSTOMIZED == "customized"

\* the events a caller can pass: event_identifier and sequence_index
HistoryEntries ==
    [event_identifier : TxHashes, sequence_index : 0..MaxSequenceIndex]

Identifiers(rows) == {e.identifier : e \in rows}
EventIdentifiers(rows) == {e.event_identifier : e \in rows}

\* UNIQUE(event_identifier, sequence_index): another row than `identifier`
\* holds the pair of the entry
Taken(rows, entry, identifier) ==
    \E e \in rows :
        /\ e.identifier # identifier
        /\ e.event_identifier = entry.event_identifier
        /\ e.sequence_index = entry.sequence_index

\* cursor.lastrowid of an insert into a table with an INTEGER PRIMARY KEY
LastRowId(rows) ==
    IF rows = {} THEN 1
    ELSE 1 + CHOOSE n \in Identifiers(rows) : \A m \in Identifiers(rows) : m <= n

\* ON DELETE CASCADE of history_events_mappings.parent_identifier
CascadeDelete(maps, gone) == {m \in maps : m.parent_identifier \notin gone}

\* mapping_values of add_history_events: None or the chain id
MappingRows(identifier, chain_id) ==
    IF chain_id = None THEN {}
    ELSE {[parent_identifier |-> identifier,
           name |-> HISTORY_MAPPING_KEY_CHAINID, value |-> chain_id]}

\* lines 61-70: the database after add_history_event(event, mapping_values)
add_history_event(db, entry, chain_id) ==
    IF Taken(db.events, entry, 0) THEN db
    ELSE [events |-> db.events \cup
                     {[identifier |-> LastRowId(db.events),
                       event_identifier |-> entry.event_identifier,
                       sequence_index |-> entry.sequence_index]},
          mappings |-> db.mappings \cup MappingRows(LastRowId(db.events), chain_id)]

RECURSIVE add_history_events(_, _, _, _)
\* lines 86-95: the loop over history from position i on
add_history_events(db, history, i, chain_id) ==
    IF i > Len(history) THEN db
    ELSE add_history_events(add_history_event(db, history[i], chain_id),
                            history, i + 1, chain_id)

\* another DBHistoryEvents method was called: the calls of
\* delete_history_events_by_identifier that returned are forgotten
Forgotten ==
    [c \in Callers |-> IF del[c].pc \in {"check", "delete"} THEN del[c] ELSE NoDelete]

AddHistoryEvent(entry, chain_id) ==
    /\ LastRowId(events) <= MaxEvents
    /\ LET db == add_history_event([events |-> events, mappings |-> mappings],
                                   entry, chain_id)
       IN events' = db.events /\ mappings' = db.mappings
    /\ del' = Forgotten
    /\ UNCHANGED nonDbVars

AddHistoryEvents(history, chain_id) ==
    /\ LastRowId(events) + Len(history) - 1 <= MaxEvents
    /\ LET db == add_history_events([events |-> events, mappings |-> mappings],
                                    history, 1, chain_id)
       IN events' = db.events /\ mappings' = db.mappings
    /\ del' = Forgotten
    /\ UNCHANGED nonDbVars

\* the UPDATE of lines 101-106 fails: IntegrityError, or rowcount != 1
EditFails(rows, identifier, entry) ==
    \/ identifier \in Identifiers(rows) /\ Taken(rows, entry, identifier)
    \/ identifier \notin Identifiers(rows)

\* lines 99-125
EditHistoryEvent(identifier, entry) ==
    /\ IF EditFails(events, identifier, entry)
       THEN UNCHANGED <<events, mappings>>
       ELSE /\ events' = {IF e.identifier = identifier
                          THEN [identifier |-> identifier,
                                event_identifier |-> entry.event_identifier,
                                sequence_index |-> entry.sequence_index]
                          ELSE e : e \in events}
            /\ mappings' = mappings \cup
                   {[parent_identifier |-> identifier,
                     name |-> HISTORY_MAPPING_KEY_STATE,
                     value |-> HISTORY_MAPPING_STATE_CUSTOMIZED]}
    /\ del' = Forgotten
    /\ UNCHANGED nonDbVars

HasMapping(maps, identifier, name, value) ==
    [parent_identifier |-> identifier, name |-> name, value |-> value] \in maps

\* lines 187-203
get_customized_event_identifiers(maps, chain_id) ==
    IF chain_id = None
    THEN {m.parent_identifier : m \in {a \in maps :
            a.name = HISTORY_MAPPING_KEY_STATE /\ a.value = HISTORY_MAPPING_STATE_CUSTOMIZED}}
    ELSE {m.parent_identifier : m \in {a \in maps :
            /\ a.name = HISTORY_MAPPING_KEY_STATE
            /\ a.value = HISTORY_MAPPING_STATE_CUSTOMIZED
            /\ HasMapping(maps, a.parent_identifier, HISTORY_MAPPING_KEY_CHAINID, chain_id)}}

\* lines 168-176: the rows the DELETE statements remove
DeletedByTxHash(rows, maps, tx_hashes, chain_id) ==
    {e \in rows :
        /\ e.event_identifier \in tx_hashes
        /\ e.identifier \notin get_customized_event_identifiers(maps, chain_id)}

DeleteEventsByTxHash(tx_hashes, chain_id) ==
    /\ LET gone == DeletedByTxHash(events, mappings, tx_hashes, chain_id)
       IN /\ events' = events \ gone
          /\ mappings' = CascadeDelete(mappings, Identifiers(gone))
    /\ del' = Forgotten
    /\ UNCHANGED nonDbVars

(* ------------------------------------------------------------------ *)
(* DBHistoryEvents.delete_history_events_by_identifier                 *)
(* The read context of the last-event check and the write context of   *)
(* the DELETE are two steps of the caller.                             *)
(* ------------------------------------------------------------------ *)
\* the lists of identifiers a caller can pass: those of the rows there can
\* be, and one that no row has
IdentifierLists == SeqsUpTo(1..(MaxEvents + 1), MaxIdentifiers)

\* lines 137-141: SELECT COUNT(*) ... WHERE event_identifier = (SELECT
\* event_identifier ... WHERE identifier=?); no row compares equal to the
\* NULL of a missing identifier
EventCount(rows, identifier) ==
    Cardinality({e \in rows : \E f \in rows :
                    /\ f.identifier = identifier
                    /\ e.event_identifier = f.event_identifier})

\* IsLastEvent with the test of line 142 never true
IsLastEvent_Never(rows, identifier) == FALSE

\* line 142
IsLastEvent(rows, identifier) == EventCount(rows, identifier) = 1

\* what the for loop of line 135 does once it is past position `pos`
DeleteLoop(call, pos) ==
    IF pos > Len(call.identifiers)
    THEN [call EXCEPT !.pc = "done", !.pos = pos, !.result = NoMessage]
    ELSE [call EXCEPT !.pc = "check", !.pos = pos]

DeleteHistoryEventsByIdentifier(c, identifiers) ==
    /\ del[c].pc \in {"idle", "done"}
    /\ del' = [del EXCEPT ![c] =
                 DeleteLoop([NoDelete EXCEPT !.identifiers = identifiers,
                                             !.before = EventIdentifiers(events),
                                             !.existing = Identifiers(events)], 1)]
    /\ UNCHANGED <<events, mappings>>
    /\ UNCHANGED nonDbVars

\* lines 136-146: the read context
DeleteCheck(c) ==
    /\ del[c].pc = "check"
    /\ LET identifier == del[c].identifiers[del[c].pos]
       IN del' = [del EXCEPT ![c] =
                    IF IsLastEvent(events, identifier)
                    THEN [@ EXCEPT !.pc = "done",
                                   !.result = [kind |-> "last event of a transaction",
                                               identifier |-> identifier]]
                    ELSE [@ EXCEPT !.pc = "delete"]]
    /\ UNCHANGED <<events, mappings>>
    /\ UNCHANGED nonDbVars

\* lines 148-156: the write context
DeleteRow(c) ==
    /\ del[c].pc = "delete"
    /\ LET identifier == del[c].identifiers[del[c].pos]
       IN /\ events' = {e \in events : e.identifier # identifier}
          /\ mappings' = CascadeDelete(mappings, {identifier})
          /\ del' = [del EXCEPT ![c] =
                       IF identifier \notin Identifiers(events)
                       THEN [@ EXCEPT !.pc = "done",
                                      !.result = [kind |-> "does not exist",
                                                  identifier |-> identifier]]
                       ELSE DeleteLoop(@, @.pos + 1)]
    /\ UNCHANGED nonDbVars

\* no call of delete_history_events_by_identifier is under way
Quiet == \A c \in Callers : del[c].pc \in {"idle", "done"}

\* the lists of events add_history_events is called with
Histories == SeqsUpTo(HistoryEntries, 2) \ {<<>>}

\* one thread adds, edits and removes the events of transactions
DbNext ==
    \/ \E entry \in HistoryEntries, chain_id \in ChainIds \cup {None} :
           AddHistoryEvent(entry, chain_id)
    \/ \E history \in Histories, chain_id \in ChainIds \cup {None} :
           AddHistoryEvents(history, chain_id)
    \/ \E identifier \in 1..MaxEvents, entry \in HistoryEntries :
           EditHistoryEvent(identifier, entry)
    \/ \E tx_hashes \in SUBSET TxHashes \ {{}}, chain_id \in ChainIds :
           DeleteEventsByTxHash(tx_hashes, chain_id)

SpecDb == Init /\ [][DbNext]_vars

\* one thread adds and edits events and deletes them by identifier: a
\* method is called when the one before has returned
DbDeleteNext ==
    \/ Quiet /\ \E entry \in HistoryEntries : AddHistoryEvent(entry, None)
    \/ Quiet /\ \E identifier \in 1..MaxEvents, entry \in HistoryEntries :
                    EditHistoryEvent(identifier, entry)
    \/ Quiet /\ \E identifiers \in IdentifierLists :
                    DeleteHistoryEventsByIdentifier("caller1", identifiers)
    \/ DeleteCheck("caller1")
    \/ DeleteRow("caller1")

SpecDbDelete == Init /\ [][DbDeleteNext]_vars

\* no call of delete_history_events_by_identifier was made
NoneCalled == \A c \in Callers : del[c].pc = "idle"

\* events are added, then two threads make one call each; the steps of
\* the two calls interleave in any order
DbConcurrentNext ==
    \/ NoneCalled /\ \E entry \in HistoryEntries : AddHistoryEvent(entry, None)
    \/ \E c \in Callers :
           /\ del[c].pc = "idle"
           /\ \E identifiers \in IdentifierLists :
                  DeleteHistoryEventsByIdentifier(c, identifiers)
    \/ \E c \in Callers : DeleteCheck(c)
    \/ \E c \in Callers : DeleteRow(c)

SpecDbConcurrent == Init /\ [][DbConcurrentNext]_vars

(* ------------------------------------------------------------------ *)
(* Ftx._make_request (rotkehlchen/exchanges/ftx.py)                    *)
(* One step per HTTP request and one per gevent.sleep: the sleeping    *)
(* greenlet yields, and what the server answers to the next request is *)
(* the server's choice.                                                *)
(* ------------------------------------------------------------------ *)
INITIAL_BACKOFF_TIME == 2
BACKOFF_LIMIT == 60
HTTP_OK == 200
TOO_MANY_REQUESTS == 429
INTERNAL_SERVER_ERROR == 500

Endpoints == {"fills", "wallet/deposits"}
\* the arguments of _make_request that may be None
OptionalArguments == {"start_time", "end_time", "minId"}
StatusCodes == {HTTP_OK, TOO_MANY_REQUESTS, INTERNAL_SERVER_ERROR}
\* response.text: not JSON, a JSON object without 'result', one with it
Texts == {"<html>", "{}", "{result}"}

\* jsonloads_dict: whether the text parses, and the keys of the object
jsonloads_dict(text) ==
    IF text = "<html>" THEN [decoded |-> FALSE, keys |-> {}]
    ELSE IF text = "{}" THEN [decoded |-> TRUE, keys |-> {}]
    ELSE [decoded |-> TRUE, keys |-> {"result"}]

RemoteError(detail) == [kind |-> "RemoteError", detail |-> detail]

\* lines 190-199: the query string; 'limit' always, 'order' by default
Options(given) == given \cup {"limit", "order"}

\* lines 232-246, after the loop
Answer(response) ==
    IF response.status_code # HTTP_OK THEN RemoteError("status code")
    ELSE IF ~jsonloads_dict(response.text).decoded
         THEN RemoteError("invalid JSON")
    ELSE IF "result" \notin jsonloads_dict(response.text).keys
         THEN RemoteError("no data")
    ELSE [kind |-> "result", detail |-> response.text]

\* a rate-limited request is retried whatever the backoff
Retries_Always(r) == r.response.status_code = TOO_MANY_REQUESTS

\* line 222
Retries(r) ==
    /\ r.response.status_code = TOO_MANY_REQUESTS
    /\ r.backoff < BACKOFF_LIMIT

\* lines 222-246
AfterResponse(r) ==
    IF Retries(r) THEN [r EXCEPT !.pc = "sleep"]
    ELSE [r EXCEPT !.pc = "done", !.result = Answer(r.response)]

\* lines 186-187
MakeRequest(endpoint, given) ==
    /\ req.pc \in {"idle", "done"}
    /\ req' = [NoRequest EXCEPT !.pc = "request", !.endpoint = endpoint,
                                !.options = Options(given),
                                !.backoff = INITIAL_BACKOFF_TIME]
    /\ UNCHANGED <<api, nonFtxVars>>

\* lines 217-218 and 222-246: the server answers
SessionGet(status_code, text) ==
    /\ req.pc = "request"
    /\ req' = AfterResponse([req EXCEPT !.sent = @ + 1,
                  !.response = [status_code |-> status_code, text |-> text]])
    /\ UNCHANGED <<api, nonFtxVars>>

\* lines 219-220: RequestException, the timeout of the request included
RequestFails ==
    /\ req.pc = "request"
    /\ req' = [req EXCEPT !.pc = "done", !.sent = @ + 1,
                          !.result = RemoteError("request failed")]
    /\ UNCHANGED <<api, nonFtxVars>>

\* lines 227-229
Sleep ==
    /\ req.pc = "sleep"
    /\ req' = [req EXCEPT !.pc = "request", !.slept = @ + req.backoff,
                          !.backoff = @ * 2]
    /\ UNCHANGED <<api, nonFtxVars>>

Respond ==
    \/ \E status_code \in StatusCodes, text \in Texts :
           SessionGet(status_code, text)
    \/ RequestFails

FtxRequestNext ==
    \/ \E endpoint \in Endpoints, given \in SUBSET OptionalArguments :
           MakeRequest(endpoint, given)
    \/ \E status_code \in StatusCodes, text \in Texts :
           SessionGet(status_code, text)
    \/ RequestFails
    \/ Sleep

SpecFtxRequest == Init /\ [][FtxRequestNext]_vars

\* session.get has a timeout and gevent.sleep(backoff) returns: a request
\* that was sent is answered or fails, and a sleeping call wakes up
SpecFtxRequestFair ==
    SpecFtxRequest /\ WF_vars(Respond) /\ WF_vars(Sleep)

(* ------------------------------------------------------------------ *)
(* Ftx._api_query                                                      *)
(* One step per _make_request; the page it returns is the server's     *)
(* choice.  An entry is the record of the keys it has.                 *)
(* ------------------------------------------------------------------ *)
MaxPages == 2

Entries == {[id |-> 1, time |-> 1], [id |-> 1, time |-> 2],
            [id |-> 2, time |-> 2], [time |-> 2], [id |-> 2]}
Limits == {1, 2}
StartTimes == {0, 1}
Pages == SeqsUpTo(Entries, 2)

SetMax(S) == CHOOSE x \in S : \A y \in S : y <= x

\* lines 351-354, from position i on
RECURSIVE Deduped(_, _, _)
Deduped(step, ids, i) ==
    IF i > Len(step) THEN <<>>
    ELSE IF "id" \in DOMAIN step[i] /\ step[i].id \notin ids
         THEN <<step[i]>> \o Deduped(step, ids, i + 1)
    ELSE Deduped(step, ids, i + 1)

\* line 355
IdsOf(entries) == {entries[i].id : i \in DOMAIN entries}

\* lines 359-364: the entries without 'time' are skipped
Times(step) ==
    {step[i].time : i \in {j \in DOMAIN step : "time" \in DOMAIN step[j]}}

\* line 388
ReturnData(q) ==
    [q EXCEPT !.pc = "done", !.result = [kind |-> "list", detail |-> ""]]

RaiseError(q, error) ==
    [q EXCEPT !.pc = "done", !.result = [kind |-> error, detail |-> ""]]

\* lines 377-386
AfterStart(q, step) ==
    IF Len(step) < q.limit THEN ReturnData(q)
    ELSE IF q.endpoint # "fills" THEN q
    ELSE IF q.ids = {} THEN RaiseError(q, "ValueError")
    ELSE [q EXCEPT !.new_min_id = SetMax(q.ids) + 1]

\* lines 366-375
AfterTimes(q, step, times) ==
    IF times = {} THEN ReturnData([q EXCEPT !.error_added = TRUE])
    ELSE AfterStart([q EXCEPT !.new_start_time = SetMax(times)], step)

\* lines 355-356
Extend(q, deduped) ==
    [q EXCEPT !.ids = @ \cup IdsOf(deduped), !.final_data = @ \o deduped]

\* lines 348-386
AfterPage(q, step) ==
    IF Len(step) = 0 THEN ReturnData(q)
    ELSE AfterTimes(Extend(q, Deduped(step, q.ids, 1)), step, Times(step))

\* lines 298-333 with paginate=True and min_id=None
ApiQuery(endpoint, start_time, limit) ==
    /\ api.pc \in {"idle", "done"}
    /\ api' = [NoApiQuery EXCEPT !.pc = "paging", !.endpoint = endpoint,
                                 !.limit = limit, !.start_time = start_time,
                                 !.new_start_time = start_time]
    /\ UNCHANGED <<req, nonFtxVars>>

\* lines 334-386: _make_request returns the list step
QueryPage(step) ==
    /\ api.pc = "paging"
    /\ api.pages < MaxPages
    /\ api' = AfterPage([api EXCEPT !.pages = @ + 1,
                                    !.received = @ \o step], step)
    /\ UNCHANGED <<req, nonFtxVars>>

\* lines 342-346: _make_request returns something that is not a list
QueryNotList ==
    /\ api.pc = "paging"
    /\ api.pages < MaxPages
    /\ api' = RaiseError([api EXCEPT !.pages = @ + 1], "RemoteError")
    /\ UNCHANGED <<req, nonFtxVars>>

\* lines 334-340: _make_request raises RemoteError
QueryFails ==
    /\ api.pc = "paging"
    /\ api.pages < MaxPages
    /\ api' = RaiseError([api EXCEPT !.pages = @ + 1], "RemoteError")
    /\ UNCHANGED <<req, nonFtxVars>>

FtxQueryNext ==
    \/ \E endpoint \in Endpoints, start_time \in StartTimes, limit \in Limits :
           ApiQuery(endpoint, start_time, limit)
    \/ \E step \in Pages : QueryPage(step)
    \/ QueryNotList
    \/ QueryFails

SpecFtxQuery == Init /\ [][FtxQueryNext]_vars

(* ------------------------------------------------------------------ *)
(* Properties                                                         *)
(* ------------------------------------------------------------------ *)
TypeOK ==
    /\ pc \in {"idle", "direct", "first_link", "second_link", "third_link",
               "closing", "get_pool_price", "done"}
    /\ caller \in {None, "get_price", "find_route"}
    /\ ret \in {0, 123, 126, 147, 150, 168, 177, 179}
    /\ link_asset \in RoutingSet \cup {None}
    /\ second_link_asset \in RoutingSet \cup {None}
    /\ Len(fetched) <= Len(route)

\* the price of one unit of token a in the pool pp holds it in
Toward(pp, a) == IF pp.token_0 = a THEN pp.price ELSE Inverse(pp.price)

\* pp as it has to stand for a hop that leaves token a
Facing(pp, a) == IF pp.token_0 = a THEN pp ELSE SwapTokens(pp)

PriceReturned == caller = "get_price" /\ pc = "done" /\ result.kind = "Price"

\* C1: whatever the tokens and the pools, the list find_route returns has at
\* most 3 entries.
C1_RouteLength == ret # 0 => Len(route) <= 3

\* C2: when find_route returns from its first loop because both hops of a
\* routing asset B were found, the route is exactly
\* [pool(from, B), pool(B, to)].
C2_TwoHopRoute ==
    ret = 147 =>
        route = <<PoolAddr(from_token, link_asset), PoolAddr(link_asset, to_token)>>

\* C3: when find_route finds the closing hop link_asset - B2, the route is
\* exactly [pool(from, link_asset), pool(link_asset, B2), pool(B2, to)].
C3_ThreeHopRoute ==
    ret = 177 =>
        route = <<PoolAddr(from_token, link_asset),
                  PoolAddr(link_asset, second_link_asset),
                  PoolAddr(second_link_asset, to_token)>>

\* C4: when find_route returns the empty route to get_price (as it does when
\* neither token is a routing asset and neither has a pool against one),
\* get_price returns price 0, raises nothing and never calls get_pool_price.
C4_NoRoutePriceZero ==
    /\ (caller = "get_price" /\ ret # 0 /\ route = <<>>) =>
            /\ pc = "done"
            /\ result = PriceResult(ZERO)
            /\ fetched = <<>>
    /\ ( /\ caller = "get_price" /\ pc = "done"
         /\ from_token \in OtherTokens /\ to_token \in OtherTokens
         /\ from_token # to_token
         /\ \A b \in RoutingSet :
                /\ pools[PoolAddr(from_token, b)] # "yes"
                /\ pools[PoolAddr(to_token, b)] # "yes" ) =>
            /\ route = <<>>
            /\ result = PriceResult(ZERO)
            /\ fetched = <<>>

C4_Witness ==
    /\ caller = "get_price" /\ pc = "done" /\ ret = 150
    /\ from_token = "X" /\ to_token = "Y"
    /\ \A b \in RoutingSet : pools[PoolAddr("X", b)] = "no"
    /\ result = PriceResult(ZERO)

\* C5: get_price(X, X) for a supported token X returns exactly 1 and makes
\* no get_pool, find_route or get_pool_price call.
C5_SameTokenIsOne ==
    (caller = "get_price" /\ args[1] = args[2]
        /\ Substitute(args[1]) \in ERC20Tokens) =>
            /\ pc = "done"
            /\ result = PriceResult(ONE)
            /\ probes = <<>>
            /\ ret = 0
            /\ fetched = <<>>

C5_Witness ==
    /\ caller = "get_price" /\ args = <<"X", "X">>
    /\ pc = "done" /\ result = PriceResult(ONE) /\ probes = <<>>

\* C6 as stated: get_price raises PriceQueryUnsupportedAsset in every call in
\* which one of the two resolved tokens is not ERC20, also when both sides
\* are the same non-ERC20 token.
C6_UnsupportedAlways ==
    ( /\ caller = "get_price" /\ pc = "done"
      /\ from_token # None /\ to_token # None
      /\ (TokenKind(from_token) # "ERC20" \/ TokenKind(to_token) # "ERC20") ) =>
            result = Raise("PriceQueryUnsupportedAsset")

\* C6 amended: get_price raises PriceQueryUnsupportedAsset in every call in
\* which the two resolved tokens differ and one of them is not ERC20; when
\* both sides resolve to the same non-ERC20 token it returns 1.
C6_UnsupportedWhenDistinct ==
    ( /\ caller = "get_price"
      /\ from_token # None /\ to_token # None
      /\ (TokenKind(from_token) # "ERC20" \/ TokenKind(to_token) # "ERC20") ) =>
            /\ pc = "done"
            /\ probes = <<>>
            /\ result = IF from_token = to_token
                        THEN PriceResult(ONE)
                        ELSE Raise("PriceQueryUnsupportedAsset")

C6_Witness ==
    /\ caller = "get_price" /\ args = <<"NFT", "X">> /\ pc = "done"
    /\ from_token = "NFT" /\ to_token = "X"
    /\ result = Raise("PriceQueryUnsupportedAsset")

\* C7: for a 3-hop route [pool(from, link_asset), pool(link_asset, B2),
\* pool(B2, to)] get_price returns the product of the three pool prices, each
\* taken in the direction of travel, whichever token a pool stores as token_0.
C7_ThreeHopProduct ==
    ( /\ PriceReturned
      /\ route = <<PoolAddr(from_token, link_asset),
                   PoolAddr(link_asset, second_link_asset),
                   PoolAddr(second_link_asset, to_token)>> ) =>
            result.price = Mul(Mul(Toward(fetched[1], from_token),
                                   Toward(fetched[2], link_asset)),
                               Toward(fetched[3], second_link_asset))

\* C8: in the orientation step every interior hop whose token_0 differs from
\* the token_1 of the hop before it (as fetched) is itself replaced by its
\* swap_tokens(); the first and the last hop change only by their own checks
\* against from_token and to_token.
C8_InteriorHopSwapped ==
    (PriceReturned /\ Len(route) >= 3) =>
        LET n == Len(fetched)
        IN /\ \A i \in 2..(n - 1) :
                fetched[i].token_0 # fetched[i - 1].token_1 =>
                    prices_and_tokens[i] = SwapTokens(fetched[i])
           /\ prices_and_tokens[1] = Facing(fetched[1], from_token)
           /\ prices_and_tokens[n] =
                IF fetched[n].token_1 # to_token
                THEN SwapTokens(fetched[n]) ELSE fetched[n]

\* C9: for a 1-hop route [pool(from, to)] and a 2-hop route
\* [pool(from, B), pool(B, to)] of pairwise distinct tokens, in every storage
\* order of the pools, get_price returns the product of the hop prices each in
\* the direction of travel, every hop being kept or inverted once.
C9_OneTwoHopProduct ==
    PriceReturned =>
        /\ route = <<PoolAddr(from_token, to_token)>> =>
            /\ result.price = Toward(fetched[1], from_token)
            /\ prices_and_tokens = <<Facing(fetched[1], from_token)>>
        /\ \A b \in RoutingSet \ {from_token, to_token} :
            route = <<PoolAddr(from_token, b), PoolAddr(b, to_token)>> =>
                /\ result.price = Mul(Toward(fetched[1], from_token),
                                      Toward(fetched[2], b))
                /\ prices_and_tokens = <<Facing(fetched[1], from_token),
                                         Facing(fetched[2], b)>>

\* WETH -> USDT over DAI: hop 1 stores (WETH, DAI) at 2000, hop 2 stores
\* (USDT, DAI) at 1, the price is 2000
C9_Witness ==
    /\ PriceReturned
    /\ from_token = "WETH" /\ to_token = "USDT"
    /\ route = <<PoolAddr("WETH", "DAI"), PoolAddr("DAI", "USDT")>>
    /\ fetched = <<[price |-> PowerOfBase(1), token_0 |-> "WETH", token_1 |-> "DAI"],
                   [price |-> PowerOfBase(0), token_0 |-> "USDT", token_1 |-> "DAI"]>>
    /\ prices_and_tokens[1] = fetched[1]
    /\ prices_and_tokens[2] = SwapTokens(fetched[2])
    /\ result = PriceResult(PowerOfBase(1))

\* C10: once the first hop from_token - B has succeeded in the first loop, B
\* stays link_asset and no first-hop probe is made for a later routing asset,
\* even when the second hop B - to_token fails.
C10_FirstLinkKept ==
    \A i \in 1..Len(probes) :
        (probes[i].site = "first" /\ probes[i].found) =>
            /\ link_asset = probes[i].b
            /\ \A j \in (i + 1)..Len(probes) : probes[j].site # "first"

\* C11: after the first loop find_route returns the empty route (line 150)
\* only if the first hop succeeded for no routing asset; if it succeeded for
\* one and no 2-hop route closed, find_route goes on to probe to_token
\* against a second routing asset B2 # to_token.
C11_EmptyOnlyWithoutFirstHop ==
    LET firstHopFound ==
            \E i \in 1..Len(probes) : probes[i].site = "first" /\ probes[i].found
    IN /\ ret = 150 => ~firstHopFound
       /\ (ret \in {150, 168, 177, 179} /\ firstHopFound) =>
            \E i \in 1..Len(probes) :
                probes[i].site = "third" /\ probes[i].b # to_token

\* C12: when from_token or to_token is a routing asset and the direct pool
\* exists, find_route returns the 1-hop route of that pool and makes no
\* get_pool call after the direct one.
C12_DirectHopFirst ==
    /\ \A i \in 1..Len(probes) :
        (probes[i].site = "direct" /\ probes[i].found) =>
            /\ ret = 123
            /\ route = <<PoolAddr(from_token, to_token)>>
            /\ Len(probes) = 1
    /\ ( /\ ret # 0
         /\ from_token \in RoutingSet \/ to_token \in RoutingSet
         /\ from_token # to_token
         /\ pools[PoolAddr(from_token, to_token)] = "yes" ) =>
            /\ ret = 123
            /\ route = <<PoolAddr(from_token, to_token)>>
            /\ Len(probes) = 1

C12_Witness ==
    /\ pc = "done" /\ ret = 123
    /\ from_token = "X" /\ to_token = "DAI"
    /\ route = <<PoolAddr("X", "DAI")>>
    /\ probes = <<Probe("direct", "X", "DAI", TRUE)>>

\* the asset the claim C13 expects get_price to work with in place of a
AsWeth(a) == IF a = "ETH" THEN "WETH" ELSE a

\* C13: get_price treats ETH as WETH on either side: the step a call
\* get_price(a, b) takes is, but for the recorded arguments, the step
\* get_price(AsWeth(a), AsWeth(b)) takes (same result or error, same first
\* lookup, same tokens handed to every later lookup); no lookup ever names
\* ETH, and get_price(ETH, WETH) is 1.
C13_EthIsWeth ==
    /\ [][\A fa \in Assets, ta \in Assets :
            (pc = "idle" /\ caller' = "get_price" /\ args' = <<fa, ta>>) =>
                GetPriceBody(AsWeth(fa), AsWeth(ta))]_vars
    /\ [](/\ \A i \in 1..Len(probes) : probes[i].a # "ETH" /\ probes[i].b # "ETH"
          /\ \A i \in 1..Len(route) : "ETH" \notin route[i]
          /\ (caller = "get_price" /\ args \in {<<"ETH", "WETH">>, <<"WETH", "ETH">>}) =>
                (pc = "done" /\ result = PriceResult(ONE) /\ probes = <<>>))

C13_Witness ==
    /\ PriceReturned
    /\ args = <<"ETH", "X">> /\ from_token = "WETH" /\ to_token = "X"
    /\ route = <<PoolAddr("WETH", "X")>>
    /\ result.price = PowerOfBase(1)

\* the asset the claim C14 expects get_price to be handed in place of a
UsdAsUsdc(a) == IF a = "USD" THEN "USDC" ELSE a

\* C14: query_current_price replaces USD by USDC on every side where it
\* appears, in all four combinations, so that get_price is never called
\* with USD; what it returns is the result of that get_price call.
C14_UsdReplaced ==
    query # NoQuery =>
        /\ caller = "get_price"
        /\ args = <<UsdAsUsdc(query[1]), UsdAsUsdc(query[2])>>
        /\ args[1] # "USD" /\ args[2] # "USD"

\* C15: when get_pool_price fails for hop k of the route, get_price fails
\* with that DefiPoolError: no price comes back, nothing is fetched after hop
\* k, and the hops fetched before it were fetched in route order.
C15_PoolErrorPropagates ==
    /\ [][(pc = "get_pool_price" /\ fetched' = fetched) =>
            (pc' = "done" /\ result' = Raise("DefiPoolError"))]_vars
    /\ [][result.kind = "DefiPoolError" => UNCHANGED vars]_vars
    /\ [](result.kind = "DefiPoolError" =>
            /\ pc = "done"
            /\ Len(fetched) < Len(route)
            /\ prices_and_tokens = fetched)
    /\ [](\A i \in 1..Len(fetched) :
            {fetched[i].token_0, fetched[i].token_1} = route[i])

C15_Witness ==
    /\ caller = "get_price" /\ pc = "done"
    /\ result = Raise("DefiPoolError")
    /\ Len(route) = 3 /\ Len(fetched) = 1

\* C17 as stated: the V2 get_pool returns the empty list whenever getPair
\* answers the null address, and the one-element list of the pair address
\* otherwise.
C17_V2EmptyOnNull ==
    rcall.op = "v2_get_pool" =>
        rret.pools = IF rcall.pair = ZERO_ADDRESS THEN <<>> ELSE <<rcall.pair>>

\* C17 amended: the V2 get_pool always returns the one-element list of the
\* address getPair answered, the null address included; _find_pool_for
\* finds no pool in the list of the null address and the pair in the other.
C17_V2ListOfAnswer ==
    rcall.op = "v2_get_pool" =>
        /\ rret.kind = "list"
        /\ rret.pools = <<rcall.pair>>
        /\ FindPoolFor(rret.pools, <<>>) =
                IF rcall.pair = ZERO_ADDRESS
                THEN [found |-> FALSE, path |-> <<>>]
                ELSE [found |-> TRUE, path |-> <<rcall.pair>>]

C17_Witness ==
    /\ rcall.op = "v2_get_pool" /\ rcall.pair = ZERO_ADDRESS
    /\ rret.pools = <<ZERO_ADDRESS>>

\* C18: the V3 get_pool returns the empty list iff every fee-tier candidate
\* is the null address or has liquidity 0; otherwise it returns exactly one
\* address, not null, of liquidity > 0 and >= that of every other candidate
\* that is not null, wherever the best candidate stands in the tier order.
C18_V3BestLiquidity ==
    rcall.op = "v3_get_pool" =>
        LET live == {i \in 1..Len(FeeTiers) :
                        rcall.cands[i] # ZERO_ADDRESS /\ rcall.liq[i] > 0}
        IN /\ rret.kind = "list"
           /\ rret.pools = <<>> <=> live = {}
           /\ live # {} =>
                /\ Len(rret.pools) = 1
                /\ \E i \in live :
                    /\ rret.pools[1] = rcall.cands[i]
                    /\ \A j \in 1..Len(FeeTiers) :
                        rcall.cands[j] # ZERO_ADDRESS => rcall.liq[i] >= rcall.liq[j]

\* liquidities [0, 500, 0]: the pool of the second tier asked is chosen
C18_Witness ==
    /\ rcall.op = "v3_get_pool"
    /\ \A i \in 1..Len(FeeTiers) : rcall.cands[i] # ZERO_ADDRESS
    /\ rcall.liq = [i \in 1..Len(FeeTiers) |-> IF i = 2 THEN 500 ELSE 0]
    /\ rret.pools = <<FeePool(2)>>

\* C16: in both resolvers, a pool whose token0 or token1 address does not
\* resolve to a known token of the supported kind makes get_pool_price fail
\* with DefiPoolError, and with no other error.
C16_UnresolvedIsPoolError ==
    ( /\ rcall.op \in {"v2_get_pool_price", "v3_get_pool_price"}
      /\ rcall.in.res0 # "ok" \/ rcall.in.res1 # "ok" ) =>
            rret.kind = "DefiPoolError"

\* the side of the pool is worth less than 5000 USD at a known USD price
WorthBelow5000(usd, reserve, decimals) ==
    usd # 0 /\ usd * reserve < 5000 * Pow10(decimals)

\* C19: a V2 pool of known decimals and nonzero reserves is refused with
\* DefiPoolError iff one side has a known (nonzero) USD price and that price
\* times the decimal-normalized reserve is strictly below 5000; a side of
\* unknown USD price never causes it, and a side worth exactly 5000 passes.
C19_LiquidityFloor ==
    ( /\ rcall.op = "v2_get_pool_price"
      /\ rcall.in.res0 = "ok" /\ rcall.in.res1 = "ok"
      /\ rcall.in.dec0.known /\ rcall.in.dec1.known
      /\ rcall.in.reserve_0 # 0 /\ rcall.in.reserve_1 # 0 ) =>
            /\ rret.kind \in {"DefiPoolError", "PoolPrice"}
            /\ rret.kind = "DefiPoolError" <=>
                \/ WorthBelow5000(rcall.in.usd0, rcall.in.reserve_0, rcall.in.dec0.value)
                \/ WorthBelow5000(rcall.in.usd1, rcall.in.reserve_1, rcall.in.dec1.value)

\* side 0 is worth exactly 5000 USD, side 1 is dust of unknown USD price
C19_Witness ==
    /\ rcall.op = "v2_get_pool_price"
    /\ rcall.in.res0 = "ok" /\ rcall.in.res1 = "ok"
    /\ rcall.in.dec0 = [known |-> TRUE, value |-> 1]
    /\ rcall.in.dec1 = [known |-> TRUE, value |-> 0]
    /\ rcall.in.usd0 = 1 /\ rcall.in.reserve_0 = 50000
    /\ rcall.in.usd1 = 0 /\ rcall.in.reserve_1 = 1
    /\ rret.kind = "PoolPrice"

\* C20: the V2 get_pool_price fails with DefiPoolError whenever the decimals
\* of a token are unknown or a reserve is zero, whatever the USD prices, and
\* then makes no USD price lookup; it returns no PoolPrice computed from a
\* zero reserve.
C20_DecimalsAndReservesFirst ==
    rcall.op = "v2_get_pool_price" =>
        /\ ( \/ ~rcall.in.dec0.known \/ ~rcall.in.dec1.known
             \/ rcall.in.reserve_0 = 0 \/ rcall.in.reserve_1 = 0 ) =>
                (rret.kind = "DefiPoolError" /\ rret.usd_lookups = 0)
        /\ rret.kind = "PoolPrice" =>
                (rcall.in.reserve_0 # 0 /\ rcall.in.reserve_1 # 0)

\* a zero reserve on a side whose USD price is known
C20_Witness ==
    /\ rcall.op = "v2_get_pool_price"
    /\ rcall.in.res0 = "ok" /\ rcall.in.res1 = "ok"
    /\ rcall.in.dec0.known /\ rcall.in.dec1.known
    /\ rcall.in.reserve_0 = 0 /\ rcall.in.usd0 = 1 /\ rcall.in.usd1 = 1
    /\ rret.kind = "DefiPoolError" /\ rret.usd_lookups = 0
\* |a - b|
BigAbsDiff(a, b) == IF BigLess(a, b) THEN BigSub(b, a) ELSE BigSub(a, b)

\* the Decimal x is within parts / 10^DecimalPrecision of the fraction n / d,
\* relative to n / d
DecNear(x, n, d, parts) ==
    ~BigLess(BigMulSmall(BigMul(n, DecDen(x)), parts),
             BigShift10(BigAbsDiff(BigMul(DecNum(x), d), BigMul(n, DecDen(x))),
                        DecimalPrecision))

\* C21 as stated: for a PoolPrice p of nonzero price, p.swap_tokens() has
\* price 1 / p.price and the two tokens exchanged, and
\* p.swap_tokens().swap_tokens() has the price and the tokens of p.
C21_SwapInvolutive ==
    rcall.op = "PoolPrice" =>
        LET p == rcall.p
            trail == rret.trail
        IN /\ Len(trail) >= 2 =>
                /\ DecIsRatio(trail[2].price, DecDen(p.price), DecNum(p.price))
                /\ trail[2].token_0 = p.token_1 /\ trail[2].token_1 = p.token_0
           /\ Len(trail) >= 3 =>
                /\ DecEqual(trail[3].price, p.price)
                /\ trail[3].token_0 = p.token_0 /\ trail[3].token_1 = p.token_1

\* C21 amended: p.swap_tokens() has the two tokens exchanged and a price
\* within 5 parts in 10^28 of 1 / p.price (the division rounds to 28 digits);
\* p.swap_tokens().swap_tokens() has the tokens of p and a price within 2
\* parts in 10^27 of p.price, equal to it whenever the price of
\* p.swap_tokens() is 1 / p.price exactly.
C21_SwapWithinPrecision ==
    rcall.op = "PoolPrice" =>
        LET p == rcall.p
            trail == rret.trail
        IN /\ Len(trail) >= 2 =>
                /\ DecNear(trail[2].price, DecDen(p.price), DecNum(p.price), 5)
                /\ trail[2].token_0 = p.token_1 /\ trail[2].token_1 = p.token_0
           /\ Len(trail) >= 3 =>
                /\ DecNear(trail[3].price, DecNum(p.price), DecDen(p.price), 20)
                /\ DecIsRatio(trail[2].price, DecDen(p.price), DecNum(p.price))
                        => DecEqual(trail[3].price, p.price)
                /\ trail[3].token_0 = p.token_0 /\ trail[3].token_1 = p.token_1

\* the price 7 comes back from two swaps as 6.999999999999999999999999998
C21_Witness ==
    /\ rcall.op = "PoolPrice" /\ rcall.p.price = DecOfNat(7)
    /\ Len(rret.trail) = 3
    /\ rret.trail[3].price =
            [coef |-> <<6999, 9999, 9999, 9999, 9999, 9999, 9998>>, exp |-> -27]
    /\ rret.trail[3].token_0 = rcall.p.token_0

\* C22 as stated: a V2 pool that passes all checks, of decimals d0, d1 and
\* raw reserves r0, r1, is given the price (r1 / r0) * 10^(d0 - d1), with
\* token_0 the pool's token0 and token_1 the pool's token1.
C22_V2PriceIsRatio ==
    (rcall.op = "v2_get_pool_price" /\ rret.kind = "PoolPrice") =>
        /\ DecIsRatio(rret.price,
                      BigShift10(BigFromNat(rcall.in.reserve_1), rcall.in.dec0.value),
                      BigShift10(BigFromNat(rcall.in.reserve_0), rcall.in.dec1.value))
        /\ rret.token_0 = "token0" /\ rret.token_1 = "token1"

(* ------------------------------------------------------------------ *)
(* find_route: its assertions and the direct hop                      *)
(* ------------------------------------------------------------------ *)
\* one get_pool call of a running find_route
FindRouteStep ==
    ProbeDirect \/ ProbeFirstLink \/ ProbeSecondLink \/ ProbeThirdLink \/ ProbeClosing

\* the get_pool calls one find_route can make: the direct hop, two for each
\* routing asset of the first loop, one for each of the second loop, and
\* the closing hop
MaxProbes == 1 + 2 * Len(routing_assets) + Len(routing_assets) + 1

\* C26: find_route never fails. No call ends with an AssertionError; when
\* the code after the two assertions of lines 171-172 is reached, link_asset
\* and second_link_asset are both set; a running find_route can always take
\* its next step and makes a bounded number of get_pool calls; and a
\* finished find_route has returned a list at one of its return statements.
C26_FindRouteNeverFails ==
    /\ result.kind # "AssertionError"
    /\ pc = "closing" => link_asset # None /\ second_link_asset # None
    /\ pc \in {"direct", "first_link", "second_link", "third_link", "closing"}
           => ENABLED FindRouteStep
    /\ Len(probes) <= MaxProbes
    /\ (caller = "find_route" /\ pc = "done")
           => result = RouteResult /\ ret \in {123, 126, 147, 150, 168, 177, 179}

\* a find_route that passed both assertions and returned the closed route
C26_Witness ==
    /\ caller = "find_route"
    /\ pc = "done"
    /\ ret = 177
    /\ link_asset # None
    /\ second_link_asset # None
    /\ result = RouteResult

\* C27: for two distinct tokens neither of which is a routing asset, no
\* get_pool call is made for the pair of the two tokens, at the direct hop
\* or anywhere else, and the pool of the pair is not in the returned route,
\* whatever the chain holds for the pair; a route of one pool is returned
\* only at the direct hop, for a pair with a routing asset in it; and no
\* address of a returned route is the null address.
C27_DirectOnlyWithBridge ==
    /\ (/\ from_token # to_token
        /\ from_token \notin RoutingSet
        /\ to_token \notin RoutingSet)
           => /\ \A i \in 1..Len(probes) :
                   /\ probes[i].site # "direct"
                   /\ {probes[i].a, probes[i].b} # {from_token, to_token}
              /\ \A i \in 1..Len(route) : route[i] # PoolAddr(from_token, to_token)
              /\ PoolAddr(from_token, to_token) \in Pairs
                     => pools[PoolAddr(from_token, to_token)] = "unknown"
    /\ Len(route) = 1
           => /\ ret = 123
              /\ from_token \in RoutingSet \/ to_token \in RoutingSet
    /\ \A i \in 1..Len(route) : route[i] # ZERO_ADDRESS

\* find_route of two tokens that are no routing assets returned a route
\* through routing assets, and the pool of the two was never asked for
C27_Witness ==
    /\ caller = "find_route"
    /\ pc = "done"
    /\ from_token = "X"
    /\ to_token = "Y"
    /\ Len(route) >= 2
    /\ pools[PoolAddr("X", "Y")] = "unknown"
    /\ \A i \in 1..Len(probes) : probes[i].site # "direct"

(* ------------------------------------------------------------------ *)
(* DBHistoryEvents                                                    *)
(* ------------------------------------------------------------------ *)
\* C23: in sequential use delete_history_events_by_identifier never removes
\* the only remaining event of an event_identifier. While a call runs and
\* when it has returned, every event_identifier that had an event when the
\* call was made still has one; the DELETE is reached only for an event
\* that is not the last of its event_identifier; the message about the last
\* event names the identifier the loop stopped at, which is still stored
\* and is the only event of its event_identifier; and a call that returns
\* None has removed every identifier of its list.
C23_LastEventKept ==
    \A c \in Callers :
        LET call == del[c]
        IN call.pc # "idle" =>
            /\ call.before \subseteq EventIdentifiers(events)
            /\ (/\ call.pc = "delete"
                /\ call.identifiers[call.pos] \in Identifiers(events))
                   => EventCount(events, call.identifiers[call.pos]) >= 2
            /\ call.result.kind = "last event of a transaction"
                   => /\ call.pc = "done"
                      /\ call.result.identifier = call.identifiers[call.pos]
                      /\ call.result.identifier \in Identifiers(events)
                      /\ EventCount(events, call.result.identifier) = 1
            /\ (call.pc = "done" /\ call.result = NoMessage)
                   => \A i \in 1..Len(call.identifiers) :
                          call.identifiers[i] \notin Identifiers(events)

\* a call with the two events of one transaction removed the first and
\* refused the second
C23_Witness ==
    LET call == del["caller1"]
    IN /\ call.pc = "done"
       /\ Len(call.identifiers) = 2
       /\ call.pos = 2
       /\ call.result.kind = "last event of a transaction"
       /\ call.identifiers[1] \in call.existing
       /\ call.identifiers[1] \notin Identifiers(events)
       /\ call.identifiers[2] \in Identifiers(events)

\* C24: a call of delete_history_events_by_identifier with an identifier
\* that no event had when the call was made returns an error message and
\* has deleted none of the events its list names.
C24_MissingFailsWhole ==
    \A c \in Callers :
        LET call == del[c]
        IN (/\ call.pc = "done"
            /\ \E i \in 1..Len(call.identifiers) :
                   call.identifiers[i] \notin call.existing)
               => /\ call.result # NoMessage
                  /\ \A i \in 1..Len(call.identifiers) :
                         call.identifiers[i] \in call.existing
                             => call.identifiers[i] \in Identifiers(events)

\* C25: a step of delete_events_by_tx_hash(tx_hashes, chain_id) removes the
\* events whose event_identifier is in tx_hashes and that are not marked
\* customized, and no other event: an event marked customized by
\* edit_history_event stays, with or without a chain-id mapping.
C25_KeepsCustomized ==
    [][\A tx_hashes \in SUBSET TxHashes \ {{}}, chain_id \in ChainIds :
           DeleteEventsByTxHash(tx_hashes, chain_id)
               => events' = {e \in events :
                               ~(/\ e.event_identifier \in tx_hashes
                                 /\ e.identifier \notin
                                        get_customized_event_identifiers(mappings, None))}]_vars

\* C30: when two callers run delete_history_events_by_identifier at the
\* same time, an event_identifier that had an event when each of the two
\* calls was made still has one.
C30_GuardHoldsConcurrently ==
    \A c1 \in Callers, c2 \in Callers :
        (c1 # c2 /\ del[c1].pc # "idle" /\ del[c2].pc # "idle")
            => (del[c1].before \cap del[c2].before) \subseteq EventIdentifiers(events)

(* ------------------------------------------------------------------ *)
(* Ftx                                                                *)
(* ------------------------------------------------------------------ *)
\* C28: Ftx._make_request terminates. The backoff is 2 at the first request
\* and has doubled once per retry, so it is 2 * 2^sent while the next request
\* is awaited and the call has slept backoff - 2 seconds in all; a retry is
\* slept for only after an answer 429 with a backoff below 60; no call sends
\* more than 6 requests; a call whose last answer is 429 has raised
\* RemoteError, after 6 requests when that answer ended the loop; and every
\* call that is running reaches its end.
C28_Terminates ==
    /\ [](req.pc # "idle" =>
            /\ req.sent <= 6
            /\ req.slept = req.backoff - INITIAL_BACKOFF_TIME
            /\ req.pc = "request" =>
                   req.backoff = INITIAL_BACKOFF_TIME * 2^req.sent
            /\ req.pc = "sleep" =>
                   /\ req.response.status_code = TOO_MANY_REQUESTS
                   /\ req.backoff = INITIAL_BACKOFF_TIME * 2^(req.sent - 1)
                   /\ req.backoff < BACKOFF_LIMIT
            /\ (req.pc = "done" /\ req.response.status_code = TOO_MANY_REQUESTS) =>
                   /\ req.result.kind = "RemoteError"
                   /\ req.result.detail = "status code" => req.sent = 6)
    /\ (req.pc \in {"request", "sleep"}) ~> (req.pc = "done")

\* a call that was rate limited six times and raised RemoteError
C28_Witness ==
    /\ req.pc = "done"
    /\ req.sent = 6
    /\ req.slept = 62
    /\ req.response.status_code = TOO_MANY_REQUESTS
    /\ req.result = RemoteError("status code")

\* the entries of received, from position i on, that have an 'id' not in seen
\* and not met before
RECURSIVE FirstOccurrences(_, _, _)
FirstOccurrences(received, i, seen) ==
    IF i > Len(received) THEN <<>>
    ELSE IF "id" \in DOMAIN received[i] /\ received[i].id \notin seen
         THEN <<received[i]>>
              \o FirstOccurrences(received, i + 1, seen \cup {received[i].id})
    ELSE FirstOccurrences(received, i + 1, seen)

\* C29: whatever pages the server returns to a paginated Ftx._api_query, its
\* final_data has no entry without 'id', has no two entries with the same
\* 'id', and is the list of the first occurrences of the ids received, in the
\* order they were received.
C29_NoDuplicateIds ==
    api.pc # "idle" =>
        /\ \A i \in DOMAIN api.final_data : "id" \in DOMAIN api.final_data[i]
        /\ \A i, j \in DOMAIN api.final_data :
               i # j => api.final_data[i].id # api.final_data[j].id
        /\ api.final_data = FirstOccurrences(api.received, 1, {})

====
